---- MODULE Spec2Model ----
(***************************************************************************)
(* A model of fetchr's segmented, resumable transfer engine                *)
(* (fetchr/parallel.py, ParallelDownloader) and of its admission layer     *)
(* (fetchr/main.py, Downloader.process_download; fetchr/                   *)
(* concurrency_manager.py, ConcurrencyManager.download_with_limit).        *)
(*                                                                         *)
(* A byte of the remote resource is identified by its offset, so a file is *)
(* a sequence of offsets; Garbage is a byte that is not the resource's.    *)
(***************************************************************************)
EXTENDS Integers, Sequences, FiniteSets, TLC

VARIABLES
    \* ---- the job descriptor and the directory (parallel.py)
    total_size,            \* download_info.size
    parallel_connections,  \* the requested number of segments
    segments,              \* the planned list of (id, start, end)
    part,                  \* part[i]: the artifact {filename}.part{i}
    final,                 \* the final artifact {download_dir}/{filename}
    \* ---- one run of _download_parallel
    phase,                 \* "idle", "planned", "fetching", "assembling", "succeeded", "failed"
    runs,                  \* how many times the job has been started
    segment_status,        \* _get_segment_status at the start of the run
    wpc,                   \* wpc[i]: where the task of segment i is
    attempt,               \* attempt[i]: the loop variable of segment i's task
    req,                   \* req[i]: the Range of the GET in flight, <<from, to>>
    ngets,                 \* ngets[i]: GETs issued for segment i in this run
    failed_segments,       \* as computed after gather
    successful_segments,
    asm_i,                 \* assembly: -1 before the final path is opened, then the next index to copy
    final0,                \* history: the final artifact when the run started
    part_gathered,         \* history: the artifacts when gather returned
    faults,                \* how many bodies of a wrong length the server has sent
    callback_progress,     \* the arguments of the call of the caller's callback that is under way
    \* ---- download_to_local (main.py)
    download_url,          \* the host of download_info.download_url
    accept_ranges,         \* the accept-ranges header of the HEAD response
    response,              \* response[i]: status and body length of the last response to segment i's GET, where the statuses are modelled
    \* ---- ConcurrencyManager, where update_host_limit is modelled
    jsem,                  \* jsem[j]: the semaphore object job j took from get_semaphore
    replaced,              \* the free permits of the semaphore objects update_host_limit replaced
    cm_host_limits,        \* ConcurrencyManager.host_limits, the limit by key
    \* ---- HealthChecker (health.py)
    health_check,          \* the host asked for, the steps run and completed, the result returned
    \* ---- the admission layer (main.py, concurrency_manager.py)
    jpc,                   \* jpc[j]: where job j is
    jnetloc,               \* jnetloc[j]: the network location of job j's URL
    jfile,                 \* jfile[j]: the filename the resolver gave for job j
    use_cm,                \* the jobs are submitted through ConcurrencyManager
    global_sempaphore,     \* Downloader.global_sempaphore: its free permits
    semaphores,            \* Downloader.semaphores: free permits by host key
    host_semaphores,       \* ConcurrencyManager.host_semaphores: free permits by key
    active_downloads,      \* ConcurrencyManager.active_downloads
    total_downloads,
    successful_downloads,
    failed_downloads,
    exists                 \* exists[f]: the final artifact f is there with its full size

tvars == <<total_size, parallel_connections, segments, part, final, phase, runs,
           segment_status, wpc, attempt, req, ngets, failed_segments,
           successful_segments, asm_i, final0, part_gathered, faults,
           callback_progress>>

\* what the program reads from the server's responses, what
\* update_host_limit changes, and the health check
lvars == <<download_url, accept_ranges, response, jsem, replaced, cm_host_limits,
           health_check>>

avars == <<jpc, jnetloc, jfile, use_cm, global_sempaphore, semaphores,
           host_semaphores, active_downloads, total_downloads,
           successful_downloads, failed_downloads, exists>>

vars == <<tvars, avars, lvars>>

-----------------------------------------------------------------------------
(* Bounds of the model. *)

\* a resource of 11 bytes: 2 segments of 5 and 6 bytes, so that one byte too
\* many is more than a tenth of the segment size
SmallSize == 11
\* a resource of 21 bytes: 2 segments of 10 and 11 bytes, so that one byte
\* too many is within a tenth of the segment size
BigSize == 21
\* a body that ends early delivers 0..MaxShort bytes
MaxShort == 1
\* a body that is too long delivers 1..MaxOver bytes too many
MaxOver == 1
\* how often the job is started (a first run and resumed runs)
MaxRuns == 2
\* how many bodies of a wrong length (short, long, or cut by an error) the
\* server sends in one behaviour; failed requests without a body are not counted
MaxFaults == 2
\* the planner is checked for every total_size and parallelism up to these
MaxPlanSize == 12
MaxPlanPar == 13

\* download_to_local is checked for every size 0..MaxLocalSize (0: the size
\* is unknown) and every parallel_connections 1..MaxLocalPar
MaxLocalSize == 6
MaxLocalPar == 3

(* Program constants. *)

\* _download_segment(..., retries: int = 3, ...)
retries == 3

Garbage == -1

\* no call of callback_progress is under way
NoCall == <<>>

NoFile == [ex |-> FALSE, data |-> <<>>]
File(d) == [ex |-> TRUE, data |-> d]
Size(f) == Len(f.data)

\* the bytes from..from+n-1 of the resource
Bytes(from, n) == [k \in 1..n |-> from + k - 1]

-----------------------------------------------------------------------------
(* Host names. A name is the sequence of its characters, so that Python's  *)
(* startswith, lower and in are computed on it.                            *)

h_ranoz_gg == <<"r", "a", "n", "o", "z", ".", "g", "g">>
h_st7_ranoz_gg == <<"s", "t", "7", ".", "r", "a", "n", "o", "z", ".", "g", "g">>
h_clicknupload_net == <<"c", "l", "i", "c", "k", "n", "u", "p", "l", "o", "a", "d", ".", "n", "e", "t">>
h_uploadbay_net == <<"u", "p", "l", "o", "a", "d", "b", "a", "y", ".", "n", "e", "t">>
h_pomf2_lain_la == <<"p", "o", "m", "f", "2", ".", "l", "a", "i", "n", ".", "l", "a">>
h_uploadflix_cc == <<"u", "p", "l", "o", "a", "d", "f", "l", "i", "x", ".", "c", "c">>
h_uploadflix_net == <<"u", "p", "l", "o", "a", "d", "f", "l", "i", "x", ".", "n", "e", "t">>
h_uploadflix_com == <<"u", "p", "l", "o", "a", "d", "f", "l", "i", "x", ".", "c", "o", "m">>
h_1uploadflix_net == <<"1", "u", "p", "l", "o", "a", "d", "f", "l", "i", "x", ".", "n", "e", "t">>
h_dl_uploadflix_com == <<"d", "l", ".", "u", "p", "l", "o", "a", "d", "f", "l", "i", "x", ".", "c", "o", "m">>
h_gofile_io == <<"g", "o", "f", "i", "l", "e", ".", "i", "o">>
h_1fichier_com == <<"1", "f", "i", "c", "h", "i", "e", "r", ".", "c", "o", "m">>
h_filedot_to == <<"f", "i", "l", "e", "d", "o", "t", ".", "t", "o">>
h_desiupload_co == <<"d", "e", "s", "i", "u", "p", "l", "o", "a", "d", ".", "c", "o">>
h_pixeldrain_com == <<"p", "i", "x", "e", "l", "d", "r", "a", "i", "n", ".", "c", "o", "m">>
h_filemirage_com == <<"f", "i", "l", "e", "m", "i", "r", "a", "g", "e", ".", "c", "o", "m">>
h_upload_ee == <<"u", "p", "l", "o", "a", "d", ".", "e", "e">>
h_uploadhive_com == <<"u", "p", "l", "o", "a", "d", "h", "i", "v", "e", ".", "c", "o", "m">>
h_send_now == <<"s", "e", "n", "d", ".", "n", "o", "w">>
h_krakenfiles_com == <<"k", "r", "a", "k", "e", "n", "f", "i", "l", "e", "s", ".", "c", "o", "m">>
h_anonfile_de == <<"a", "n", "o", "n", "f", "i", "l", "e", ".", "d", "e">>
h_axfc_net == <<"a", "x", "f", "c", ".", "n", "e", "t">>
h_default == <<"d", "e", "f", "a", "u", "l", "t">>
h_www_uploadflix_cc == <<"w", "w", "w", ".", "u", "p", "l", "o", "a", "d", "f", "l", "i", "x", ".", "c", "c">>

UpperCase == <<"A", "B", "C", "D", "E", "F", "G", "H", "I", "J", "K", "L", "M", "N", "O", "P", "Q", "R", "S", "T", "U", "V", "W", "X", "Y", "Z">>
LowerCase == <<"a", "b", "c", "d", "e", "f", "g", "h", "i", "j", "k", "l", "m", "n", "o", "p", "q", "r", "s", "t", "u", "v", "w", "x", "y", "z">>

\* str.lower()
Lower(str) ==
    [k \in 1..Len(str) |->
        IF \E c \in 1..Len(UpperCase) : UpperCase[c] = str[k]
        THEN LowerCase[CHOOSE c \in 1..Len(UpperCase) : UpperCase[c] = str[k]]
        ELSE str[k]]

\* host.startswith('www.') and host[4:]
StripWww(str) ==
    IF Len(str) >= 4 /\ SubSeq(str, 1, 4) = <<"w", "w", "w", ".">>
    THEN SubSeq(str, 5, Len(str))
    ELSE str

\* a in b, for strings
StrIn(a, b) ==
    \E k \in 0..(Len(b) - Len(a)) : SubSeq(b, k + 1, k + Len(a)) = a

-----------------------------------------------------------------------------
(* The admission layer: Downloader (main.py) and ConcurrencyManager        *)
(* (concurrency_manager.py).                                               *)

\* how many jobs are submitted
NJobs == 3
\* Downloader(max_concurrent_global = ...), 20 when not given
max_concurrent_global == 2
\* ConcurrencyManager(host_limits = {"uploadflix.cc": ...})
custom_limit == 2

Jobs == 1..NJobs

\* the submitted URLs: their network location and the filename the resolver
\* gives for them (all go to one download_dir)
Urls ==
    <<[netloc |-> h_www_uploadflix_cc, file |-> "a.bin"],
      [netloc |-> h_uploadflix_cc, file |-> "a.bin"],
      [netloc |-> h_uploadflix_cc, file |-> "b.bin"],
      [netloc |-> h_clicknupload_net, file |-> "a.bin"],
      [netloc |-> h_clicknupload_net, file |-> "b.bin"],
      [netloc |-> h_anonfile_de, file |-> "b.bin"]>>
Netlocs == {Urls[k].netloc : k \in 1..Len(Urls)}
Filenames == {Urls[k].file : k \in 1..Len(Urls)}

\* HOSTS_HANLDER (main.py lines 53-176): the max_concurrent of the entries
\* that have one
HOSTS_HANLDER_max_concurrent ==
    (h_ranoz_gg :> 5)
    @@ (h_st7_ranoz_gg :> 5)
    @@ (h_clicknupload_net :> 1)
    @@ (h_uploadbay_net :> 5)
    @@ (h_pomf2_lain_la :> 5)
    @@ (h_uploadflix_cc :> 2)
    @@ (h_uploadflix_net :> 2)
    @@ (h_uploadflix_com :> 2)
    @@ (h_1uploadflix_net :> 2)
    @@ (h_dl_uploadflix_com :> 2)
    @@ (h_gofile_io :> 5)
    @@ (h_1fichier_com :> 1)
    @@ (h_filedot_to :> 5)
    @@ (h_desiupload_co :> 5)
    @@ (h_pixeldrain_com :> 10)
    @@ (h_filemirage_com :> 5)
    @@ (h_upload_ee :> 5)
    @@ (h_uploadhive_com :> 10)
    @@ (h_send_now :> 5)
    @@ (h_krakenfiles_com :> 5)

\* the hosts whose HOSTS_HANLDER entry downloads with aiohttp
\* (download_with_aria2c not set) on more than one connection, that is
\* through _download_parallel (main.py lines 333-360 and 390-416)
SegmentedHosts ==
    {h_clicknupload_net, h_uploadflix_cc, h_uploadflix_net, h_uploadflix_com,
     h_1uploadflix_net, h_dl_uploadflix_com}

\* ConcurrencyManager.__init__ (concurrency_manager.py lines 24-37): the
\* default limits, in their order, merged with the custom limits
host_limits ==
    <<[key |-> h_pixeldrain_com, limit |-> 10],
       [key |-> h_gofile_io, limit |-> 5],
       [key |-> h_anonfile_de, limit |-> 20],
       [key |-> h_filedot_to, limit |-> 5],
       [key |-> h_desiupload_co, limit |-> 2],
       [key |-> h_axfc_net, limit |-> 20],
       [key |-> h_filemirage_com, limit |-> 5],
       [key |-> h_uploadhive_com, limit |-> 5],
       [key |-> h_default, limit |-> 1],
       [key |-> h_uploadflix_cc, limit |-> custom_limit]>>

NoKey == <<>>

\* Downloader._get_host (main.py lines 198-204)
get_host(netloc) == StripWww(Lower(netloc))

\* ConcurrencyManager.get_host_from_url (concurrency_manager.py lines 67-73)
get_host_from_url(netloc) == StripWww(netloc)

\* a lookup that finds no host semaphore (the key is never the host)
host_semapthore_none(host) == NoKey

\* main.py line 294: self.semaphores.get(host, None)
host_semapthore(host) ==
    IF host \in DOMAIN HOSTS_HANLDER_max_concurrent THEN host ELSE NoKey

\* ConcurrencyManager.get_semaphore (concurrency_manager.py lines 53-65):
\* the key of the first semaphore that matches, else "default"
get_semaphore(host0) ==
    LET host == StripWww(host0)
        matches == {k \in 1..Len(host_limits) :
                       StrIn(host_limits[k].key, host) \/ StrIn(host, host_limits[k].key)}
    IN  IF matches # {}
        THEN host_limits[CHOOSE k \in matches : \A m \in matches : k <= m].key
        ELSE h_default

\* the three lookups, computed once for each netloc that is submitted
HostOfNetloc == [n \in Netlocs |-> get_host(n)]
CmHostOfNetloc == [n \in Netlocs |-> get_host_from_url(n)]
CmKeyOfNetloc == [n \in Netlocs |-> get_semaphore(get_host_from_url(n))]

Host(j) == HostOfNetloc[jnetloc[j]]
CmHost(j) == CmHostOfNetloc[jnetloc[j]]
CmKey(j) == CmKeyOfNetloc[jnetloc[j]]

\* concurrency_manager.py lines 101-109 and the end of "async with
\* semaphore": the counters and the permit when job j leaves download_file
CmExit(j, ok) ==
    IF use_cm
    THEN /\ host_semaphores' = [host_semaphores EXCEPT ![CmKey(j)] = @ + 1]
         /\ active_downloads' = [active_downloads EXCEPT ![CmHost(j)] = @ - 1]
         /\ successful_downloads' = successful_downloads + (IF ok THEN 1 ELSE 0)
         /\ failed_downloads' = failed_downloads + (IF ok THEN 0 ELSE 1)
    ELSE UNCHANGED <<host_semaphores, active_downloads, successful_downloads,
                     failed_downloads>>

\* main.py lines 295-302: job j has the global permit; it takes the permit
\* of its host when one is configured and free, waits for it when it is not
\* free, and runs start_download at once when none is configured
AfterGlobal(j) ==
    LET hs == host_semapthore(Host(j))
    IN  IF hs = NoKey
        THEN /\ jpc' = [jpc EXCEPT ![j] = "running"]
             /\ UNCHANGED semaphores
        ELSE IF semaphores[hs] > 0
        THEN /\ jpc' = [jpc EXCEPT ![j] = "running"]
             /\ semaphores' = [semaphores EXCEPT ![hs] = @ - 1]
        ELSE /\ jpc' = [jpc EXCEPT ![j] = "wait_host"]
             /\ UNCHANGED semaphores

\* download_file is called directly (main.py lines 206-230)
SubmitDirect(j) ==
    /\ ~use_cm
    /\ jpc[j] = "new"
    /\ jpc' = [jpc EXCEPT ![j] = "resolving"]
    /\ UNCHANGED <<jnetloc, jfile, use_cm, global_sempaphore, semaphores,
                   host_semaphores, active_downloads, total_downloads,
                   successful_downloads, failed_downloads, exists>>
    /\ UNCHANGED tvars
    /\ UNCHANGED lvars

\* download_with_limit (concurrency_manager.py lines 90-93): the job asks
\* for the permit of its host's semaphore
SubmitCM(j) ==
    /\ use_cm
    /\ jpc[j] = "new"
    /\ jpc' = [jpc EXCEPT ![j] = "cm_wait"]
    /\ UNCHANGED <<jnetloc, jfile, use_cm, global_sempaphore, semaphores,
                   host_semaphores, active_downloads, total_downloads,
                   successful_downloads, failed_downloads, exists>>
    /\ UNCHANGED tvars
    /\ UNCHANGED lvars

\* concurrency_manager.py lines 93-98: the permit is taken, the counters
\* are raised, download_file is called
CmAcquire(j) ==
    /\ jpc[j] = "cm_wait"
    /\ host_semaphores[CmKey(j)] > 0
    /\ host_semaphores' = [host_semaphores EXCEPT ![CmKey(j)] = @ - 1]
    /\ active_downloads' = [active_downloads EXCEPT ![CmHost(j)] = @ + 1]
    /\ total_downloads' = total_downloads + 1
    /\ jpc' = [jpc EXCEPT ![j] = "resolving"]
    /\ UNCHANGED <<jnetloc, jfile, use_cm, global_sempaphore, semaphores,
                   successful_downloads, failed_downloads, exists>>
    /\ UNCHANGED tvars
    /\ UNCHANGED lvars

\* main.py lines 288-292: the resolver has answered and process_download
\* finds the file there with its size; it returns without any limiter
ReturnExisting(j) ==
    /\ jpc[j] = "resolving"
    /\ jpc' = [jpc EXCEPT ![j] = "skipped"]
    /\ CmExit(j, TRUE)
    /\ UNCHANGED <<jnetloc, jfile, use_cm, global_sempaphore, semaphores,
                   total_downloads, exists>>
    /\ UNCHANGED tvars
    /\ UNCHANGED lvars

\* the file is known to be there with its size
SkipExisting(j) ==
    /\ exists[jfile[j]]
    /\ ReturnExisting(j)

\* main.py lines 288-302: the resolver has answered and process_download
\* asks for the global permit, then for the host's
TakeLimiters(j) ==
    /\ jpc[j] = "resolving"
    /\ IF global_sempaphore > 0
       THEN /\ global_sempaphore' = global_sempaphore - 1
            /\ AfterGlobal(j)
       ELSE /\ jpc' = [jpc EXCEPT ![j] = "wait_global"]
            /\ UNCHANGED <<global_sempaphore, semaphores>>
    /\ UNCHANGED <<jnetloc, jfile, use_cm, host_semaphores, active_downloads,
                   total_downloads, successful_downloads, failed_downloads, exists>>
    /\ UNCHANGED tvars
    /\ UNCHANGED lvars

\* the file is not known to be there with its size
ProcessDownload(j) ==
    /\ ~exists[jfile[j]]
    /\ TakeLimiters(j)

\* main.py line 295: a job that waited for the global permit gets it
AcquireGlobal(j) ==
    /\ jpc[j] = "wait_global"
    /\ global_sempaphore > 0
    /\ global_sempaphore' = global_sempaphore - 1
    /\ AfterGlobal(j)
    /\ UNCHANGED <<jnetloc, jfile, use_cm, host_semaphores, active_downloads,
                   total_downloads, successful_downloads, failed_downloads, exists>>
    /\ UNCHANGED tvars
    /\ UNCHANGED lvars

\* main.py lines 298-299: a job that waited for its host's permit gets it
AcquireHost(j) ==
    /\ jpc[j] = "wait_host"
    /\ semaphores[host_semapthore(Host(j))] > 0
    /\ semaphores' = [semaphores EXCEPT ![host_semapthore(Host(j))] = @ - 1]
    /\ jpc' = [jpc EXCEPT ![j] = "running"]
    /\ UNCHANGED <<jnetloc, jfile, use_cm, global_sempaphore, host_semaphores,
                   active_downloads, total_downloads, successful_downloads,
                   failed_downloads, exists>>
    /\ UNCHANGED tvars
    /\ UNCHANGED lvars

\* main.py lines 295-307: start_download returns or raises; the host's
\* permit and the global permit are released
Finish(j) ==
    /\ jpc[j] = "running"
    /\ \E ok \in BOOLEAN :
         /\ jpc' = [jpc EXCEPT ![j] = IF ok THEN "succeeded" ELSE "failed"]
         /\ exists' = [exists EXCEPT ![jfile[j]] = @ \/ ok]
         /\ CmExit(j, ok)
    /\ semaphores' = IF host_semapthore(Host(j)) = NoKey THEN semaphores
                     ELSE [semaphores EXCEPT ![host_semapthore(Host(j))] = @ + 1]
    /\ global_sempaphore' = global_sempaphore + 1
    /\ UNCHANGED <<jnetloc, jfile, use_cm, total_downloads>>
    /\ UNCHANGED tvars
    /\ UNCHANGED lvars

\* the permits of the Downloader that job j holds are given back: on the
\* way out of "async with host_semapthore" and "async with
\* self.global_sempaphore" (main.py lines 295-299)
ReleaseHeld(j) ==
    /\ semaphores' = IF jpc[j] = "running" /\ host_semapthore(Host(j)) # NoKey
                     THEN [semaphores EXCEPT ![host_semapthore(Host(j))] = @ + 1]
                     ELSE semaphores
    /\ global_sempaphore' = IF jpc[j] \in {"wait_host", "running"}
                            THEN global_sempaphore + 1
                            ELSE global_sempaphore

\* the task of job j is cancelled where it waits (for the resolver, for a
\* semaphore, or for the transfer). CancelledError is no Exception: no
\* "except Exception" on the way catches it (main.py lines 303 and 274,
\* concurrency_manager.py line 104); each "async with" gives its permit
\* back and the finally of download_with_limit (lines 108-109) runs
ReleaseOnCancel(j) ==
    /\ jpc[j] \in {"resolving", "wait_global", "wait_host", "running"}
    /\ jpc' = [jpc EXCEPT ![j] = "cancelled"]
    /\ ReleaseHeld(j)
    /\ IF use_cm
       THEN /\ host_semaphores' = [host_semaphores EXCEPT ![CmKey(j)] = @ + 1]
            /\ active_downloads' = [active_downloads EXCEPT ![CmHost(j)] = @ - 1]
       ELSE UNCHANGED <<host_semaphores, active_downloads>>
    /\ UNCHANGED <<jnetloc, jfile, use_cm, total_downloads, successful_downloads,
                   failed_downloads, exists>>

\* a job of the admission layer alone is cancelled
Cancel(j) ==
    /\ ReleaseOnCancel(j)
    /\ UNCHANGED tvars
    /\ UNCHANGED lvars

\* the task of job j is cancelled while it waits for the semaphore of
\* download_with_limit (concurrency_manager.py line 93): it was not admitted
CancelQueued(j) ==
    /\ jpc[j] = "cm_wait"
    /\ jpc' = [jpc EXCEPT ![j] = "dropped"]
    /\ UNCHANGED <<jnetloc, jfile, use_cm, global_sempaphore, semaphores,
                   host_semaphores, active_downloads, total_downloads,
                   successful_downloads, failed_downloads, exists>>
    /\ UNCHANGED tvars
    /\ UNCHANGED lvars

\* a Downloader whose global semaphore has one permit more than
\* max_concurrent_global
AdmitConstructedOneMore ==
    /\ global_sempaphore = max_concurrent_global + 1
    /\ semaphores = HOSTS_HANLDER_max_concurrent
    /\ host_semaphores =
          [key \in {host_limits[k].key : k \in 1..Len(host_limits)} |->
              LET k == CHOOSE m \in 1..Len(host_limits) : host_limits[m].key = key
              IN  host_limits[k].limit]
    /\ active_downloads = [h \in {get_host_from_url(n) : n \in Netlocs} |-> 0]
    /\ total_downloads = 0
    /\ successful_downloads = 0
    /\ failed_downloads = 0
    /\ exists = [f \in Filenames |-> FALSE]

\* Downloader.__init__ (main.py lines 184-195) and
\* ConcurrencyManager.__init__ (concurrency_manager.py lines 16-51)
AdmitConstructed ==
    /\ global_sempaphore = max_concurrent_global
    /\ semaphores = HOSTS_HANLDER_max_concurrent
    /\ host_semaphores =
          [key \in {host_limits[k].key : k \in 1..Len(host_limits)} |->
              LET k == CHOOSE m \in 1..Len(host_limits) : host_limits[m].key = key
              IN  host_limits[k].limit]
    /\ active_downloads = [h \in {get_host_from_url(n) : n \in Netlocs} |-> 0]
    /\ total_downloads = 0
    /\ successful_downloads = 0
    /\ failed_downloads = 0
    /\ exists = [f \in Filenames |-> FALSE]

\* download_to_local is not modelled: the transfer starts in _download_parallel
LocalUnused ==
    /\ download_url = <<>>
    /\ accept_ranges = "bytes"
    /\ response = <<>>
    /\ jsem = <<>>
    /\ replaced = <<>>
    /\ cm_host_limits = <<>>
    /\ health_check = <<>>

\* no job is submitted
AdmitUnused ==
    /\ jpc = <<>>
    /\ jnetloc = <<>>
    /\ jfile = <<>>
    /\ use_cm = FALSE
    /\ AdmitConstructed

-----------------------------------------------------------------------------
(* SegmentPlanner: parallel.py lines 30-40. *)

PlanLastWithoutRemainder(total, par) ==
    LET segment_size == total \div par
    IN  [k \in 1..par |->
            [id |-> k - 1, start |-> (k - 1) * segment_size,
             end |-> (k - 1) * segment_size + segment_size - 1]]

Plan(total, par) ==
    LET segment_size == total \div par
    IN  [k \in 1..par |->
            LET i == k - 1
                start == i * segment_size
            IN  [id |-> i, start |-> start,
                 end |-> IF i = par - 1 THEN total - 1
                                        ELSE start + segment_size - 1]]

Ids == 0..(Len(segments) - 1)
Seg(i) == segments[i + 1]
ExpectedOf(s) == s.end - s.start + 1
Expected(i) == ExpectedOf(Seg(i))

-----------------------------------------------------------------------------
(* SegmentStore: _get_segment_status and _cleanup_corrupted_segments. *)

\* a classification that takes every artifact that is long enough for
\* complete
get_segment_status_by_minimum(p, segs) ==
    LET ids == {segs[k].id : k \in 1..Len(segs)}
        exp(i) == ExpectedOf(segs[i + 1])
    IN  [complete  |-> {i \in ids : p[i].ex /\ Size(p[i]) >= exp(i)},
         partial   |-> {i \in ids : p[i].ex /\ Size(p[i]) < exp(i)},
         corrupted |-> {},
         missing   |-> {i \in ids : ~p[i].ex}]

\* parallel.py lines 540-568
get_segment_status(p, segs) ==
    LET ids == {segs[k].id : k \in 1..Len(segs)}
        exp(i) == ExpectedOf(segs[i + 1])
    IN  [complete  |-> {i \in ids : p[i].ex /\ Size(p[i]) = exp(i)},
         partial   |-> {i \in ids : p[i].ex /\ Size(p[i]) < exp(i)},
         corrupted |-> {i \in ids : p[i].ex /\ Size(p[i]) > exp(i)},
         missing   |-> {i \in ids : ~p[i].ex}]

\* _cleanup_segments (parallel.py lines 491-501): every artifact is unlinked
cleanup_segments(p, segs) == [i \in DOMAIN p |-> NoFile]

\* parallel.py lines 503-525: every artifact whose size differs from the
\* expected size is unlinked, the partial ones included
cleanup_corrupted_segments(p, segs) ==
    [i \in DOMAIN p |->
        IF p[i].ex /\ Size(p[i]) # ExpectedOf(segs[i + 1]) THEN NoFile ELSE p[i]]

-----------------------------------------------------------------------------
(* SegmentWorker: _download_segment and _download_segment_with_aiohttp. *)

None == -1

\* get_current_start that always starts over at start_byte
get_current_start_restart(f, s) ==
    IF f.ex /\ Size(f) = ExpectedOf(s) THEN [start |-> None, file |-> f]
    ELSE [start |-> s.start, file |-> f]

\* get_current_start (parallel.py lines 259-274): the offset the next GET
\* starts at, None when the segment counts as complete, and the artifact as
\* the call leaves it. existing_size > segment_size * 1.1 is compared in
\* integers: 10 * existing_size > 11 * segment_size.
get_current_start(f, s) ==
    LET segment_size == ExpectedOf(s)
        existing_size == Size(f)
    IN  IF f.ex
        THEN IF existing_size = segment_size
             THEN [start |-> None, file |-> f]
             ELSE IF existing_size < segment_size
             THEN [start |-> s.start + existing_size, file |-> f]
             ELSE IF 10 * existing_size > 11 * segment_size
             THEN [start |-> s.start, file |-> NoFile]
             ELSE [start |-> None, file |-> f]
        ELSE [start |-> s.start, file |-> f]

\* the lengths of the body a 206 response may carry for a request of `full`
\* bytes: it ends early, is exact, or is too long
BodyLens(full) ==
    {n \in 0..(full + MaxOver) : n <= MaxShort \/ n >= full}

\* a loop that runs one attempt more
AttemptFailedOneMore(i) ==
    IF attempt[i] = retries + 1
    THEN /\ wpc' = [wpc EXCEPT ![i] = "failed"]
         /\ UNCHANGED attempt
    ELSE /\ wpc' = [wpc EXCEPT ![i] = "ready"]
         /\ attempt' = [attempt EXCEPT ![i] = @ + 1]

\* parallel.py lines 419-432: an attempt failed; the task raises after the
\* last attempt and else sleeps 2 ** attempt seconds and tries again (the
\* sleep only delays the next attempt)
AttemptFailed(i) ==
    IF attempt[i] = retries
    THEN /\ wpc' = [wpc EXCEPT ![i] = "failed"]
         /\ UNCHANGED attempt
    ELSE /\ wpc' = [wpc EXCEPT ![i] = "ready"]
         /\ attempt' = [attempt EXCEPT ![i] = @ + 1]

\* parallel.py lines 277-280 and 352-387: the task recomputes current_start;
\* it returns when the segment counts as complete and else sends the GET
AttemptBegin(i) ==
    /\ phase = "fetching"
    /\ wpc[i] = "ready"
    /\ LET g == get_current_start(part[i], Seg(i))
       IN  /\ part' = [part EXCEPT ![i] = g.file]
           /\ IF g.start = None
              THEN /\ wpc' = [wpc EXCEPT ![i] = "done"]
                   /\ UNCHANGED <<req, ngets>>
              ELSE /\ wpc' = [wpc EXCEPT ![i] = "inflight"]
                   /\ req' = [req EXCEPT ![i] = <<g.start, Seg(i).end>>]
                   /\ ngets' = [ngets EXCEPT ![i] = @ + 1]
    /\ UNCHANGED <<total_size, parallel_connections, segments, final, phase, runs,
                   segment_status, attempt, failed_segments, successful_segments,
                   asm_i, final0, part_gathered, faults>>
    /\ callback_progress' = NoCall
    /\ UNCHANGED avars
    /\ UNCHANGED lvars

\* parallel.py lines 382-392: the request fails, or the status is not 206;
\* nothing is written
RespondError(i) ==
    /\ phase = "fetching"
    /\ wpc[i] = "inflight"
    /\ AttemptFailed(i)
    /\ UNCHANGED <<total_size, parallel_connections, segments, part, final, phase,
                   runs, segment_status, req, ngets, failed_segments,
                   successful_segments, asm_i, final0, part_gathered, faults>>
    /\ callback_progress' = NoCall
    /\ UNCHANGED avars
    /\ UNCHANGED lvars

\* parallel.py lines 394-417: a 206 response; its body of n bytes is appended
\* to the artifact, then the count is compared (err: the stream raised)
RespondPartial(i) ==
    /\ phase = "fetching"
    /\ wpc[i] = "inflight"
    /\ LET current_start == req[i][1]
           expected_downloaded == req[i][2] - current_start + 1
       IN  \E n \in BodyLens(expected_downloaded), err \in BOOLEAN :
             /\ part' = [part EXCEPT ![i] = File(part[i].data \o Bytes(current_start, n))]
             /\ IF err \/ n # expected_downloaded
                THEN /\ faults < MaxFaults
                     /\ faults' = faults + 1
                     /\ AttemptFailed(i)
                ELSE /\ wpc' = [wpc EXCEPT ![i] = "done"]
                     /\ UNCHANGED <<attempt, faults>>
    /\ UNCHANGED <<total_size, parallel_connections, segments, final, phase, runs,
                   segment_status, req, ngets, failed_segments, successful_segments,
                   asm_i, final0, part_gathered>>
    /\ callback_progress' = NoCall
    /\ UNCHANGED avars
    /\ UNCHANGED lvars

-----------------------------------------------------------------------------
(* TransferCoordinator: _download_parallel. *)

NoStatus == [complete |-> {}, partial |-> {}, corrupted |-> {}, missing |-> {}]

\* parallel.py lines 30-155: plan, classify, clean up when a corrupted
\* artifact was found, create one task per segment
Start ==
    /\ phase \in {"idle", "failed"}
    /\ runs < MaxRuns
    /\ LET segs == Plan(total_size, parallel_connections)
           status == get_segment_status(part, segs)
           ids == 0..(Len(segs) - 1)
       IN  /\ segments' = segs
           /\ segment_status' = status
           /\ part' = IF status.corrupted # {}
                      THEN cleanup_corrupted_segments(part, segs)
                      ELSE part
           /\ wpc' = [i \in ids |-> "ready"]
           /\ attempt' = [i \in ids |-> 0]
           /\ req' = [i \in ids |-> <<>>]
           /\ ngets' = [i \in ids |-> 0]
    /\ phase' = "fetching"
    /\ runs' = runs + 1
    /\ failed_segments' = {}
    /\ successful_segments' = {}
    /\ asm_i' = -1
    /\ final0' = final
    /\ part_gathered' = [i \in DOMAIN part |-> NoFile]
    /\ UNCHANGED <<total_size, parallel_connections, final, faults>>
    /\ callback_progress' = NoCall
    /\ UNCHANGED avars
    /\ UNCHANGED lvars

\* a validation that only looks whether the artifacts exist
SegmentsExist(p, segs) ==
    \A k \in 1..Len(segs) : p[k - 1].ex

\* _assemble_segments, parallel.py lines 441-459: every segment exists and
\* has its expected size
SegmentsValid(p, segs) ==
    \A k \in 1..Len(segs) :
        p[k - 1].ex /\ Size(p[k - 1]) = ExpectedOf(segs[k])

\* a gather that raises the first exception of a task
gather_first_exception ==
    \/ \A i \in Ids : wpc[i] \in {"done", "failed"}
    \/ \E i \in Ids : wpc[i] = "failed"

\* parallel.py line 158, asyncio.gather(*tasks, return_exceptions=True):
\* it returns when every task has returned or raised
gather_returned == \A i \in Ids : wpc[i] \in {"done", "failed"}

\* parallel.py lines 156-225 and 441-459: gather has returned; with a failed
\* segment the job raises, else the segments are validated for assembly
Decide ==
    /\ phase = "fetching"
    /\ gather_returned
    /\ failed_segments' = {i \in Ids : wpc[i] = "failed"}
    /\ successful_segments' = {i \in Ids : wpc[i] = "done"}
    /\ part_gathered' = part
    /\ phase' = IF failed_segments' # {} THEN "failed"
                ELSE IF SegmentsValid(part, segments) THEN "assembling"
                ELSE "failed"
    /\ UNCHANGED <<total_size, parallel_connections, segments, part, final, runs,
                   segment_status, wpc, attempt, req, ngets, asm_i, final0, faults>>
    /\ callback_progress' = NoCall
    /\ UNCHANGED avars
    /\ UNCHANGED lvars

\* parallel.py line 462: the final path is opened 'wb'
OpenFinal ==
    /\ phase = "assembling"
    /\ asm_i = -1
    /\ final' = File(<<>>)
    /\ asm_i' = 0
    /\ UNCHANGED <<total_size, parallel_connections, segments, part, phase, runs,
                   segment_status, wpc, attempt, req, ngets, failed_segments,
                   successful_segments, final0, part_gathered, faults>>
    /\ callback_progress' = NoCall
    /\ UNCHANGED avars
    /\ UNCHANGED lvars

\* a copy loop that runs from the last segment to the first
NextToCopyReversed(k) == Len(segments) - 1 - k

\* parallel.py line 463, for i in range(segment_count): the index of the
\* segment copied k-th
NextToCopy(k) == k

\* a copy loop that leaves the copied segment where it is
keep_copied(p, i) == p

\* parallel.py line 474, os.remove(segment_path): the artifact of segment i
\* is removed once its copy loop has ended
remove_copied(p, i) == [p EXCEPT ![i] = NoFile]

\* parallel.py lines 463-475: segment asm_i is copied to the final file and
\* then removed
CopySegment ==
    /\ phase = "assembling"
    /\ asm_i >= 0
    /\ asm_i < Len(segments)
    /\ LET i == NextToCopy(asm_i)
       IN  /\ final' = File(final.data \o part[i].data)
           /\ part' = remove_copied(part, i)
    /\ asm_i' = asm_i + 1
    /\ UNCHANGED <<total_size, parallel_connections, segments, phase, runs,
                   segment_status, wpc, attempt, req, ngets, failed_segments,
                   successful_segments, final0, part_gathered, faults>>
    /\ callback_progress' = NoCall
    /\ UNCHANGED avars
    /\ UNCHANGED lvars

\* parallel.py lines 462-475: a read of the segment, a write to the final
\* file or the removal of the segment raises (an I/O error); the final file
\* keeps what was written and the segments copied so far stay removed
CopyFails ==
    /\ phase = "assembling"
    /\ asm_i >= 0
    /\ asm_i < Len(segments)
    /\ phase' = "failed"
    /\ UNCHANGED <<total_size, parallel_connections, segments, part, final, runs,
                   segment_status, wpc, attempt, req, ngets, failed_segments,
                   successful_segments, asm_i, final0, part_gathered, faults>>
    /\ callback_progress' = NoCall
    /\ UNCHANGED avars
    /\ UNCHANGED lvars

\* the sum of the sizes of the artifacts p of the segments
RECURSIVE SumSizes(_, _)
SumSizes(p, n) == IF n = 0 THEN 0 ELSE Size(p[n - 1]) + SumSizes(p, n - 1)

RECURSIVE SumExpected(_, _)
SumExpected(segs, n) ==
    IF n = 0 THEN 0 ELSE ExpectedOf(segs[n]) + SumExpected(segs, n - 1)

\* an assembly that does not look at the size of the final file
final_size_unchecked(f, p, segs) == TRUE

\* parallel.py lines 477-489: the size of the final file is compared with
\* the total of the validated sizes and with the sum of the expected sizes
final_size_checked(f, p, segs) ==
    /\ Size(f) = SumSizes(p, Len(segs))
    /\ Size(f) = SumExpected(segs, Len(segs))

\* parallel.py lines 477-489 and 226-227: the final size is compared with
\* the validated total and with the sum of the expected sizes
VerifyFinal ==
    /\ phase = "assembling"
    /\ asm_i = Len(segments)
    /\ phase' = IF final_size_checked(final, part_gathered, segments)
                THEN "succeeded" ELSE "failed"
    /\ UNCHANGED <<total_size, parallel_connections, segments, part, final, runs,
                   segment_status, wpc, attempt, req, ngets, failed_segments,
                   successful_segments, asm_i, final0, part_gathered, faults>>
    /\ callback_progress' = NoCall
    /\ UNCHANGED avars
    /\ UNCHANGED lvars

\* a cancellation that reaches none of the segment tasks
CancelledByNothing == {}

\* parallel.py line 158: the tasks are awaited through asyncio.gather, and
\* cancelling the gather cancels every task it waits for that is not done
CancelledByGather == {i \in Ids : wpc[i] \in {"ready", "inflight"}}

\* the task that runs _download_parallel is cancelled (or the process is
\* killed) while it waits for its segment tasks: CancelledError reaches
\* every task gather cancels, at its GET, its read or its backoff sleep, and
\* passes the "except Exception" of the retry loop (parallel.py lines
\* 419-432) and of _download_parallel (229-236); the files stay as they are
CancelTasks ==
    /\ phase = "fetching"
    /\ phase' = "idle"
    /\ wpc' = [i \in Ids |-> IF i \in CancelledByGather \/ wpc[i] \in {"done", "failed"}
                              THEN "none" ELSE wpc[i]]
    /\ attempt' = [i \in Ids |-> 0]
    /\ req' = [i \in Ids |-> <<>>]
    /\ ngets' = [i \in Ids |-> 0]
    /\ segment_status' = NoStatus
    /\ UNCHANGED <<total_size, parallel_connections, segments, part, final, runs,
                   failed_segments, successful_segments, asm_i, final0,
                   part_gathered, faults>>
    /\ callback_progress' = NoCall

\* the run is killed, or its task is cancelled, while it waits for its
\* segment tasks: the files stay as they are
Interrupt ==
    /\ CancelTasks
    /\ UNCHANGED avars
    /\ UNCHANGED lvars

-----------------------------------------------------------------------------
(* The transfer of one resource, started up to MaxRuns times. *)

JobConfigs == {<<SmallSize, 2>>, <<BigSize, 2>>}

\* an artifact grown by hand beyond its expected size
Grown(s) == File(Bytes(s.start, ExpectedOf(s)) \o <<Garbage>>)

Init ==
    /\ \E cfg \in JobConfigs :
         /\ total_size = cfg[1]
         /\ parallel_connections = cfg[2]
    /\ \E G \in SUBSET (0..(parallel_connections - 1)) :
         part = [i \in 0..(parallel_connections - 1) |->
                   IF i \in G
                   THEN Grown(Plan(total_size, parallel_connections)[i + 1])
                   ELSE NoFile]
    /\ final \in {NoFile, File(<<Garbage>>)}
    /\ segments = <<>>
    /\ phase = "idle"
    /\ runs = 0
    /\ segment_status = NoStatus
    /\ wpc = [i \in 0..(parallel_connections - 1) |-> "none"]
    /\ attempt = [i \in 0..(parallel_connections - 1) |-> 0]
    /\ req = [i \in 0..(parallel_connections - 1) |-> <<>>]
    /\ ngets = [i \in 0..(parallel_connections - 1) |-> 0]
    /\ failed_segments = {}
    /\ successful_segments = {}
    /\ asm_i = -1
    /\ final0 = NoFile
    /\ part_gathered = [i \in 0..(parallel_connections - 1) |-> NoFile]
    /\ faults = 0
    /\ callback_progress = NoCall
    /\ LocalUnused
    /\ AdmitUnused

Next ==
    \/ Start
    \/ \E i \in Ids : AttemptBegin(i)
    \/ \E i \in Ids : RespondError(i)
    \/ \E i \in Ids : RespondPartial(i)
    \/ Decide
    \/ OpenFinal
    \/ CopySegment
    \/ CopyFails
    \/ VerifyFinal
    \/ Interrupt

Spec == Init /\ [][Next]_vars

-----------------------------------------------------------------------------
(* Claims about the transfer of one resource. *)

PlannedExpected(i) == ExpectedOf(Plan(total_size, parallel_connections)[i + 1])
BeforeAssembly(ph) == ph \in {"idle", "fetching", "failed"}

\* C1: when the job fails because a segment task failed, the final artifact
\* is as it was when the run started, no segment artifact was deleted by the
\* failure, and every segment whose task reported success has an artifact of
\* exactly its expected size.
C1_NoPartialFinalFile ==
    (phase = "failed" /\ failed_segments # {}) =>
        /\ final = final0
        /\ part = part_gathered
        /\ \A i \in successful_segments :
              part[i].ex /\ Size(part[i]) = Expected(i)

\* C2: from the start of a job until assembly begins, an artifact that holds
\* at most its expected number of bytes is never deleted, truncated or
\* rewritten: what it held stays a prefix of what it holds.
C2_ResumeNeverShrinks ==
    [][(BeforeAssembly(phase) /\ BeforeAssembly(phase')) =>
         \A i \in DOMAIN part :
            (part[i].ex /\ Size(part[i]) <= PlannedExpected(i)) =>
                /\ Size(part'[i]) >= Size(part[i])
                /\ SubSeq(part'[i].data, 1, Size(part[i])) = part[i].data]_vars

\* C3: a job that returns success leaves a final artifact that holds the
\* bytes 0..total_size-1 of the resource, each once and in order.
C3_FinalIsResource ==
    phase = "succeeded" => final = File(Bytes(0, total_size))

\* a resumed run over a complete and a partial artifact in which segment 1
\* failed twice and then succeeded, and the job returned success
C3_Witness ==
    /\ phase = "succeeded"
    /\ runs = 2
    /\ segment_status.complete # {}
    /\ segment_status.partial # {}
    /\ attempt[1] = 2

\* C7: a job that starts with exactly one artifact larger than its expected
\* size deletes that artifact, leaves every other artifact that holds bytes
\* as it was, and the first GET for the repaired segment starts at its
\* start_byte.
C7_RepairLeavesOthers ==
    [][/\ (phase # "fetching" /\ phase' = "fetching") =>
            LET st == get_segment_status(part, Plan(total_size, parallel_connections))
            IN  \A k \in st.corrupted :
                   st.corrupted = {k} =>
                      /\ ~part'[k].ex
                      /\ \A j \in DOMAIN part :
                            (j # k /\ Size(part[j]) > 0) => part'[j] = part[j]
       /\ (phase = "fetching" /\ phase' = "fetching") =>
            \A k \in segment_status.corrupted :
               (ngets[k] = 0 /\ ngets'[k] = 1) =>
                   req'[k] = <<Seg(k).start, Seg(k).end>>]_vars

\* C8: an attempt for a segment [s, e] whose artifact holds k bytes, k less
\* than the expected size, requests exactly the bytes s + k through e and
\* leaves the artifact as it is.
C8_ResumeRange ==
    [][\A i \in DOMAIN wpc :
          (/\ wpc[i] = "ready"
           /\ wpc'[i] = "inflight"
           /\ Size(part[i]) < Expected(i)) =>
              /\ req'[i] = <<Seg(i).start + Size(part[i]), Seg(i).end>>
              /\ part'[i] = part[i]]_vars

\* a retry within one run over an artifact of one byte: the GET in flight
\* starts one byte after the segment's start_byte
C8_Witness ==
    \E i \in DOMAIN wpc :
        /\ wpc[i] = "inflight"
        /\ attempt[i] >= 1
        /\ part[i].ex
        /\ Size(part[i]) = 1
        /\ req[i] = <<Seg(i).start + 1, Seg(i).end>>

\* C10: while a job fetches, the artifact of a segment that was complete when
\* the job started is left as it is (by the cleanup at the start too) and no
\* GET is issued for that segment.
C10_CompleteUntouched ==
    [][phase' = "fetching" =>
         \A i \in segment_status'.complete :
            /\ part'[i] = part[i]
            /\ wpc'[i] # "inflight"
            /\ ngets'[i] = 0]_vars

\* a resumed run that found a complete and a corrupted artifact, cleaned up,
\* and whose task for the complete segment has returned
C10_Witness ==
    /\ phase = "fetching"
    /\ segment_status.corrupted # {}
    /\ \E i \in segment_status.complete :
          /\ wpc[i] = "done"
          /\ part[i].ex
          /\ Size(part[i]) = Expected(i)
    /\ \E j \in DOMAIN ngets : ngets[j] > 0

-----------------------------------------------------------------------------
(* The planner alone, for every total_size and parallelism within the      *)
(* bounds.                                                                 *)

\* parallel.py lines 30-40, run on its own
PlanSegments ==
    /\ phase = "idle"
    /\ segments' = Plan(total_size, parallel_connections)
    /\ phase' = "planned"
    /\ UNCHANGED <<total_size, parallel_connections, part, final, runs,
                   segment_status, wpc, attempt, req, ngets, failed_segments,
                   successful_segments, asm_i, final0, part_gathered, faults>>
    /\ callback_progress' = NoCall
    /\ UNCHANGED avars
    /\ UNCHANGED lvars

InitPlan ==
    /\ total_size \in 1..MaxPlanSize
    /\ parallel_connections \in 1..MaxPlanPar
    /\ part = [i \in 0..(parallel_connections - 1) |-> NoFile]
    /\ final = NoFile
    /\ segments = <<>>
    /\ phase = "idle"
    /\ runs = 0
    /\ segment_status = NoStatus
    /\ wpc = [i \in 0..(parallel_connections - 1) |-> "none"]
    /\ attempt = [i \in 0..(parallel_connections - 1) |-> 0]
    /\ req = [i \in 0..(parallel_connections - 1) |-> <<>>]
    /\ ngets = [i \in 0..(parallel_connections - 1) |-> 0]
    /\ failed_segments = {}
    /\ successful_segments = {}
    /\ asm_i = -1
    /\ final0 = NoFile
    /\ part_gathered = [i \in 0..(parallel_connections - 1) |-> NoFile]
    /\ faults = 0
    /\ callback_progress = NoCall
    /\ LocalUnused
    /\ AdmitUnused

NextPlan == PlanSegments

SpecPlan == InitPlan /\ [][NextPlan]_vars

\* C6: for total_size >= 1 and 1 <= parallelism <= total_size the planned
\* segments are as many as the parallelism, segment 0 starts at 0, each next
\* segment starts one byte after the previous end, the last ends at
\* total_size - 1, none is empty, and the expected sizes sum to total_size.
C6_Partition ==
    (phase = "planned" /\ parallel_connections <= total_size) =>
        /\ Len(segments) = parallel_connections
        /\ segments[1].start = 0
        /\ \A k \in 1..(Len(segments) - 1) :
              segments[k + 1].start = segments[k].end + 1
        /\ segments[Len(segments)].end = total_size - 1
        /\ \A k \in 1..Len(segments) :
              segments[k].id = k - 1 /\ segments[k].end >= segments[k].start
        /\ SumExpected(segments, Len(segments)) = total_size

\* total_size 10 in 3 segments: [0,2], [3,5], [6,9]
C6_Witness ==
    /\ phase = "planned"
    /\ total_size = 10
    /\ parallel_connections = 3
    /\ segments = << [id |-> 0, start |-> 0, end |-> 2],
                     [id |-> 1, start |-> 3, end |-> 5],
                     [id |-> 2, start |-> 6, end |-> 9] >>

-----------------------------------------------------------------------------
(* NJobs jobs submitted to one Downloader, all directly or all through one *)
(* ConcurrencyManager.                                                     *)

\* no transfer is modelled
TransferUnused ==
    /\ total_size = 0
    /\ parallel_connections = 0
    /\ segments = <<>>
    /\ part = <<>>
    /\ final = NoFile
    /\ phase = "idle"
    /\ runs = 0
    /\ segment_status = NoStatus
    /\ wpc = <<>>
    /\ attempt = <<>>
    /\ req = <<>>
    /\ ngets = <<>>
    /\ failed_segments = {}
    /\ successful_segments = {}
    /\ asm_i = -1
    /\ final0 = NoFile
    /\ part_gathered = <<>>
    /\ faults = 0
    /\ callback_progress = NoCall

InitAdmit ==
    /\ TransferUnused
    /\ LocalUnused
    /\ jpc = [j \in Jobs |-> "new"]
    \* the jobs behave alike, so they are numbered in the order of their URLs
    /\ \E u \in [Jobs -> 1..Len(Urls)] :
         /\ \A j \in Jobs : j + 1 \in Jobs => u[j] <= u[j + 1]
         /\ jnetloc = [j \in Jobs |-> Urls[u[j]].netloc]
         /\ jfile = [j \in Jobs |-> Urls[u[j]].file]
    /\ use_cm \in BOOLEAN
    /\ AdmitConstructed

NextAdmit ==
    \/ \E j \in Jobs : SubmitDirect(j)
    \/ \E j \in Jobs : SubmitCM(j)
    \/ \E j \in Jobs : CmAcquire(j)
    \/ \E j \in Jobs : SkipExisting(j)
    \/ \E j \in Jobs : ProcessDownload(j)
    \/ \E j \in Jobs : AcquireGlobal(j)
    \/ \E j \in Jobs : AcquireHost(j)
    \/ \E j \in Jobs : Finish(j)
    \/ \E j \in Jobs : Cancel(j)
    \/ \E j \in Jobs : CancelQueued(j)

SpecAdmit == InitAdmit /\ [][NextAdmit]_vars

-----------------------------------------------------------------------------
(* Claims about admission. *)

Running == {j \in Jobs : jpc[j] = "running"}
RunningOf(h) == {j \in Running : Host(j) = h}
\* the jobs inside the download call that download_with_limit wraps
Wrapped == {j \in Jobs : use_cm /\ jpc[j] \in {"resolving", "wait_global", "wait_host", "running"}}
HostPermitFree(j) ==
    host_semapthore(Host(j)) = NoKey \/ semaphores[host_semapthore(Host(j))] > 0

\* C4: for every host that HOSTS_HANLDER gives a max_concurrent, at most
\* that many jobs of the host are inside start_download; and for every host
\* that is a key of the ConcurrencyManager's limits, at most that limit of
\* jobs of the host are inside the download call that download_with_limit
\* wraps.
C4_HostLimit ==
    /\ \A h \in DOMAIN HOSTS_HANLDER_max_concurrent :
          Cardinality(RunningOf(h)) <= HOSTS_HANLDER_max_concurrent[h]
    /\ \A k \in 1..Len(host_limits) :
          Cardinality({j \in Wrapped : CmHost(j) = host_limits[k].key})
              <= host_limits[k].limit

\* more jobs of clicknupload.net (max_concurrent 1) are submitted than may
\* run: one is inside start_download, another holds the global permit and
\* waits for the host's permit
C4_Witness ==
    \E j1 \in Jobs, j2 \in Jobs :
        /\ Host(j1) = h_clicknupload_net
        /\ Host(j2) = h_clicknupload_net
        /\ HOSTS_HANLDER_max_concurrent[h_clicknupload_net] = 1
        /\ jpc[j1] = "running"
        /\ jpc[j2] = "wait_host"

\* C5: a job that waits for admission while its own host's limiter has a
\* free permit (or its host has none) and fewer than max_concurrent_global
\* jobs are Running is not held back: a global permit is free for it. Jobs
\* that wait for another host's limiter take no capacity it needs.
C5_OtherHostsUnaffected ==
    \A j \in Jobs :
        (/\ jpc[j] = "wait_global"
         /\ HostPermitFree(j)
         /\ Cardinality(Running) < max_concurrent_global) =>
            global_sempaphore > 0

\* C9: no two jobs that are inside start_download at the same time fetch and
\* assemble the segments of the same filename of the download directory.
C9_OneWriterPerFile ==
    \A j1 \in Jobs, j2 \in Jobs :
        (/\ j1 # j2
         /\ jpc[j1] = "running"
         /\ jpc[j2] = "running"
         /\ Host(j1) \in SegmentedHosts
         /\ Host(j2) \in SegmentedHosts) =>
            jfile[j1] # jfile[j2]

\* C11: at no time are more than max_concurrent_global jobs of the
\* Downloader inside start_download, whatever hosts the jobs go to and
\* whether they are submitted directly or through a ConcurrencyManager.
C11_GlobalLimit ==
    Cardinality(Running) <= max_concurrent_global

\* as many jobs run as the global limit allows, they go to more than one
\* host, and a further job waits for the global permit
C11_Witness ==
    /\ Cardinality(Running) = max_concurrent_global
    /\ \E j1 \in Running, j2 \in Running : Host(j1) # Host(j2)
    /\ \E j \in Jobs : jpc[j] = "wait_global"
    /\ global_sempaphore = 0

-----------------------------------------------------------------------------
(* Claims about the end of a transfer. *)

\* the run ended in a failure of the assembly: every segment task had
\* reported success
AssemblyFailed == phase = "failed" /\ failed_segments = {}

\* C12: after a job returned success no segment artifact remains; after a
\* job ended in a failure every segment artifact that was there, with at
\* most its expected size, when the segment tasks had returned is still
\* there as it was.
C12_PartsKeptOnFailure ==
    /\ phase = "succeeded" => \A i \in Ids : ~part[i].ex
    /\ phase = "failed" =>
          \A i \in Ids :
              (part_gathered[i].ex /\ Size(part_gathered[i]) <= Expected(i))
                  => part[i] = part_gathered[i]

\* C13: when the assembly fails, at the validation, while copying or at the
\* size check, the final artifact is as it was before the run: not created,
\* not truncated, not partly written.
C13_FinalKeptOnAssemblyFailure ==
    AssemblyFailed => final = final0

-----------------------------------------------------------------------------
(* Claims about the bookkeeping of the admission. *)

\* the jobs that download_with_limit admitted and that have left it
CmEnded ==
    {j \in Jobs : use_cm /\ jpc[j] \in {"succeeded", "failed", "skipped", "cancelled"}}

\* C14: of the jobs download_with_limit has admitted, those that have left
\* it - by a return, an exception or a cancellation - hold no permit of
\* their host's semaphore, are no longer counted in active_downloads, and
\* each of them has raised exactly one of successful_downloads and
\* failed_downloads.
C14_CmAccounting ==
    use_cm =>
        /\ \A k \in 1..Len(host_limits) :
              host_semaphores[host_limits[k].key] =
                  host_limits[k].limit
                      - Cardinality({j \in Wrapped : CmKey(j) = host_limits[k].key})
        /\ \A h \in DOMAIN active_downloads :
              active_downloads[h] = Cardinality({j \in Wrapped : CmHost(j) = h})
        /\ successful_downloads + failed_downloads = Cardinality(CmEnded)

\* the jobs that hold a permit of the global semaphore
HoldsGlobal == {j \in Jobs : jpc[j] \in {"wait_host", "running"}}

\* job j holds a permit of a limiter of its host: of the semaphore that
\* download_with_limit chose for it (the "default" one when no key matches),
\* or of the Downloader's semaphore for its host
HoldsHostPermit(j) ==
    \/ use_cm /\ j \in Wrapped
    \/ jpc[j] = "running" /\ host_semapthore(Host(j)) # NoKey

\* C15: every job inside start_download holds one permit of a limiter of
\* its host and one permit of the global limiter; the permits out are
\* exactly those of the jobs that hold them.
C15_RunningHoldsBoth ==
    /\ \A j \in Running : HoldsHostPermit(j) /\ j \in HoldsGlobal
    /\ global_sempaphore = max_concurrent_global - Cardinality(HoldsGlobal)

-----------------------------------------------------------------------------
(* Claims about the inputs of the planner. *)

\* C17: for every total_size >= 1 and every requested parallelism there are
\* at least one and at most total_size planned segments, and every planned
\* segment has end >= start, that is at least one byte.
C17_ParallelismClamped ==
    (phase = "planned" /\ total_size >= 1) =>
        /\ Len(segments) >= 1
        /\ Len(segments) <= total_size
        /\ \A k \in 1..Len(segments) : segments[k].end >= segments[k].start

-----------------------------------------------------------------------------
(* download_to_local (main.py lines 364-481): the choice between the       *)
(* segmented transfer and the single connection.                           *)

\* main.py lines 394-403: the check of the HEAD response passes; a
\* download_url that contains "axfc.net" is not checked
RangeChecked ==
    \/ StrIn(h_axfc_net, download_url)
    \/ accept_ranges = "bytes"

\* main.py lines 390-425: with parallel_connections > 1 the HEAD response is
\* checked and _download_parallel is called, or "Range request not
\* supported" is raised (and raised again by lines 476-481); else one GET
\* for the whole resource is sent
DownloadToLocal ==
    /\ phase = "idle"
    /\ runs = 0
    /\ IF parallel_connections > 1
       THEN IF RangeChecked
            THEN Start
            ELSE /\ phase' = "failed"
                 /\ UNCHANGED <<total_size, parallel_connections, segments, part,
                                final, runs, segment_status, wpc, attempt, req,
                                ngets, failed_segments, successful_segments,
                                asm_i, final0, part_gathered, faults,
                                callback_progress>>
                 /\ UNCHANGED avars
                 /\ UNCHANGED lvars
       ELSE /\ phase' = "streaming"
            /\ UNCHANGED <<total_size, parallel_connections, segments, part,
                           final, runs, segment_status, wpc, attempt, req,
                           ngets, failed_segments, successful_segments,
                           asm_i, final0, part_gathered, faults,
                           callback_progress>>
            /\ UNCHANGED avars
            /\ UNCHANGED lvars

\* main.py lines 427-448: the body of the single GET, n bytes, is written
\* to the final path opened "wb"; a body shorter than a known size is an
\* "Incomplete download"
StreamBody ==
    /\ phase = "streaming"
    /\ \E n \in 0..MaxLocalSize :
         /\ final' = File(Bytes(0, n))
         /\ phase' = IF total_size # 0 /\ n < total_size THEN "failed"
                     ELSE "succeeded"
    /\ UNCHANGED <<total_size, parallel_connections, segments, part, runs,
                   segment_status, wpc, attempt, req, ngets, failed_segments,
                   successful_segments, asm_i, final0, part_gathered, faults,
                   callback_progress>>
    /\ UNCHANGED avars
    /\ UNCHANGED lvars

InitLocal ==
    /\ total_size \in 0..MaxLocalSize
    /\ parallel_connections \in 1..MaxLocalPar
    /\ download_url \in {h_clicknupload_net, h_axfc_net}
    /\ accept_ranges \in {"bytes", "none", "absent"}
    /\ response = <<>>
    /\ jsem = <<>>
    /\ replaced = <<>>
    /\ cm_host_limits = <<>>
    /\ health_check = <<>>
    /\ part = [i \in 0..(parallel_connections - 1) |-> NoFile]
    /\ final = NoFile
    /\ segments = <<>>
    /\ phase = "idle"
    /\ runs = 0
    /\ segment_status = NoStatus
    /\ wpc = [i \in 0..(parallel_connections - 1) |-> "none"]
    /\ attempt = [i \in 0..(parallel_connections - 1) |-> 0]
    /\ req = [i \in 0..(parallel_connections - 1) |-> <<>>]
    /\ ngets = [i \in 0..(parallel_connections - 1) |-> 0]
    /\ failed_segments = {}
    /\ successful_segments = {}
    /\ asm_i = -1
    /\ final0 = NoFile
    /\ part_gathered = [i \in 0..(parallel_connections - 1) |-> NoFile]
    /\ faults = 0
    /\ callback_progress = NoCall
    /\ AdmitUnused

NextLocal ==
    \/ DownloadToLocal
    \/ StreamBody

SpecLocal == InitLocal /\ [][NextLocal]_vars

\* C18: a resource whose total_size is 0 (unknown) is never segmented: the
\* planner is not run for it and no segment task is started, whatever
\* parallel_connections is.
C18_UnknownSizeNotSegmented ==
    total_size = 0 => (segments = <<>> /\ phase # "fetching")

\* C19: when more than one connection is requested and the host does not
\* announce byte ranges, download_to_local goes on with the single
\* connection: it neither starts the segmented transfer nor fails.
C19_RangeUnsupportedFallsBack ==
    [][(/\ phase = "idle" /\ phase' # "idle"
        /\ parallel_connections > 1
        /\ ~RangeChecked) => phase' = "streaming"]_vars

-----------------------------------------------------------------------------
(* The progress reports of a segmented transfer: update_progress           *)
(* (parallel.py lines 86-116).                                             *)

\* a sum that trusts the sizes of the artifacts as they are
RECURSIVE total_downloaded_uncapped(_, _, _)
total_downloaded_uncapped(p, segs, n) ==
    IF n = 0 THEN 0
    ELSE (IF p[n - 1].ex THEN Size(p[n - 1]) ELSE 0)
             + total_downloaded_uncapped(p, segs, n - 1)

\* parallel.py lines 99-113: the sizes of the artifacts that exist, each
\* capped at the expected size of its segment, summed over the first n segments
RECURSIVE total_downloaded(_, _, _)
total_downloaded(p, segs, n) ==
    IF n = 0 THEN 0
    ELSE (IF p[n - 1].ex
          THEN (IF Size(p[n - 1]) < ExpectedOf(segs[n])
                THEN Size(p[n - 1]) ELSE ExpectedOf(segs[n]))
          ELSE 0)
             + total_downloaded(p, segs, n - 1)

\* parallel.py lines 86-116 and 403-410: the task of segment i, reading its
\* response, calls update_progress; the interval has passed, so every
\* artifact is measured and the caller's callback gets (total_downloaded,
\* total_size)
UpdateProgress(i) ==
    /\ phase = "fetching"
    /\ wpc[i] = "inflight"
    /\ callback_progress' =
          <<total_downloaded(part, segments, Len(segments)), total_size>>
    /\ UNCHANGED <<total_size, parallel_connections, segments, part, final, phase,
                   runs, segment_status, wpc, attempt, req, ngets, failed_segments,
                   successful_segments, asm_i, final0, part_gathered, faults>>
    /\ UNCHANGED avars
    /\ UNCHANGED lvars

\* a job that starts with no artifact on disk
InitProgress ==
    /\ Init
    /\ final = NoFile
    /\ \A i \in DOMAIN part : ~part[i].ex

NextProgress ==
    \/ Next
    \/ \E i \in Ids : UpdateProgress(i)

SpecProgress == InitProgress /\ [][NextProgress]_vars

\* min(current size, expected size) of the artifact of segment i, 0 when
\* there is none
CappedSize(i) ==
    IF ~part[i].ex THEN 0
    ELSE IF Size(part[i]) < Expected(i) THEN Size(part[i]) ELSE Expected(i)

RECURSIVE CappedSum(_)
CappedSum(n) == IF n = 0 THEN 0 ELSE CappedSize(n - 1) + CappedSum(n - 1)

\* C20: every report (downloaded, total) that reaches the caller's callback
\* has total = total_size and downloaded = the sum over the segments of
\* min(size of the artifact, expected size) as the artifacts are at the
\* report, so 0 <= downloaded <= total_size.
C20_ProgressIsCappedSum ==
    callback_progress # NoCall =>
        /\ callback_progress[2] = total_size
        /\ callback_progress[1] = CappedSum(Len(segments))
        /\ callback_progress[1] >= 0
        /\ callback_progress[1] <= total_size

\* a report made after a retry, while an artifact larger than its segment
\* is on disk
C20_Witness ==
    /\ callback_progress # NoCall
    /\ \E i \in Ids : part[i].ex /\ Size(part[i]) > Expected(i)
    /\ \E i \in Ids : attempt[i] >= 1
    /\ callback_progress[1] > 0

-----------------------------------------------------------------------------
(* One job from its submission to its end: admitted by the Downloader      *)
(* (directly or through a ConcurrencyManager), transferred in segments,    *)
(* and possibly cancelled on the way.                                      *)

\* the one job
TheJob == 1

InitJob ==
    /\ \E cfg \in JobConfigs :
         /\ total_size = cfg[1]
         /\ parallel_connections = cfg[2]
    /\ part = [i \in 0..(parallel_connections - 1) |-> NoFile]
    /\ final = NoFile
    /\ segments = <<>>
    /\ phase = "idle"
    /\ runs = 0
    /\ segment_status = NoStatus
    /\ wpc = [i \in 0..(parallel_connections - 1) |-> "none"]
    /\ attempt = [i \in 0..(parallel_connections - 1) |-> 0]
    /\ req = [i \in 0..(parallel_connections - 1) |-> <<>>]
    /\ ngets = [i \in 0..(parallel_connections - 1) |-> 0]
    /\ failed_segments = {}
    /\ successful_segments = {}
    /\ asm_i = -1
    /\ final0 = NoFile
    /\ part_gathered = [i \in 0..(parallel_connections - 1) |-> NoFile]
    /\ faults = 0
    /\ callback_progress = NoCall
    /\ LocalUnused
    /\ jpc = <<"new">>
    /\ jnetloc \in {<<n>> : n \in {h_clicknupload_net, h_uploadflix_cc}}
    /\ jfile = <<"a.bin">>
    /\ use_cm \in BOOLEAN
    /\ AdmitConstructed

\* start_download (main.py lines 333-360) runs the transfer while the job
\* holds its permits
TransferStep ==
    /\ jpc[TheJob] = "running"
    /\ \/ phase = "idle" /\ Start
       \/ \E i \in Ids : AttemptBegin(i)
       \/ \E i \in Ids : RespondError(i)
       \/ \E i \in Ids : RespondPartial(i)
       \/ Decide
       \/ OpenFinal
       \/ CopySegment
       \/ CopyFails
       \/ VerifyFinal

\* the transfer has returned or raised: process_download ends with it
FinishJob ==
    /\ phase \in {"succeeded", "failed"}
    /\ Finish(TheJob)
    /\ jpc'[TheJob] = phase

\* the job is cancelled while _download_parallel waits for its segment tasks
CancelJob ==
    /\ jpc[TheJob] = "running"
    /\ CancelTasks
    /\ ReleaseOnCancel(TheJob)
    /\ UNCHANGED lvars

\* the job is cancelled before its transfer has started
CancelEarly ==
    /\ phase = "idle"
    /\ Cancel(TheJob)

NextJob ==
    \/ SubmitDirect(TheJob)
    \/ SubmitCM(TheJob)
    \/ CmAcquire(TheJob)
    \/ ProcessDownload(TheJob)
    \/ TransferStep
    \/ FinishJob
    \/ CancelJob
    \/ CancelEarly

SpecJob == InitJob /\ [][NextJob]_vars

\* every permit of every semaphore is free
AllPermitsFree(g, sems, hsems) ==
    /\ g = max_concurrent_global
    /\ sems = HOSTS_HANLDER_max_concurrent
    /\ \A k \in 1..Len(host_limits) :
          hsems[host_limits[k].key] = host_limits[k].limit

\* C16: when a job is cancelled while its segment tasks are in flight, no
\* segment task is left that sends, reads or waits to retry; the step
\* deletes and shortens no segment artifact; the permits the job held are
\* free again; and nothing is written to the artifacts afterwards.
C16_CancelStopsTasks ==
    [][/\ (jpc[TheJob] = "running" /\ phase = "fetching"
             /\ jpc'[TheJob] = "cancelled") =>
            /\ \A i \in Ids : wpc'[i] \notin {"ready", "inflight"}
            /\ part' = part
            /\ final' = final
            /\ AllPermitsFree(global_sempaphore', semaphores', host_semaphores')
       /\ jpc[TheJob] = "cancelled" => (part' = part /\ final' = final)]_vars

\* the job was cancelled while one segment task waited for its response and
\* the other, after a short body, waited to retry: the partial artifact is
\* on disk and the permits are free
C16_Witness ==
    /\ jpc[TheJob] = "cancelled"
    /\ runs = 1
    /\ phase = "idle"
    /\ faults >= 1
    /\ \E i \in Ids : part[i].ex /\ Size(part[i]) > 0 /\ Size(part[i]) < Expected(i)
    /\ AllPermitsFree(global_sempaphore, semaphores, host_semaphores)

-----------------------------------------------------------------------------
(* Claims about the resolution of the descriptor. *)

\* the jobs inside resolver.get_download_info (main.py lines 225-230)
Resolving == {j \in Jobs : jpc[j] = "resolving"}

\* C21: a job that is resolving its descriptor holds no permit of a
\* transfer limiter, neither of a limiter of its host nor of the global one.
C21_ResolvingHoldsNoPermit ==
    \A j \in Resolving : ~HoldsHostPermit(j) /\ j \notin HoldsGlobal

-----------------------------------------------------------------------------
(* One job whose final path may already hold a file: process_download     *)
(* (main.py lines 288-302) asks check_exists before it takes any limiter,  *)
(* and the download that follows is the single GET of download_to_local.   *)

\* a check that does not compare the sizes
check_exists_any_size(filename, f, size) ==
    IF filename # "" /\ f.ex THEN "True" ELSE "None"

\* check_exists (main.py lines 309-316) for the file f found at the final
\* path and the size of the descriptor: True, False, or None when the
\* function ends without a return
check_exists(filename, f, size) ==
    IF filename # "" /\ f.ex
    THEN IF size = Size(f) THEN "True" ELSE "False"
    ELSE "None"

\* main.py lines 288-302: "if self.check_exists(...)" returns at once, any
\* other result goes on to the limiters
ProcessDownloadChecked(j) ==
    IF check_exists(jfile[j], final, total_size) = "True"
    THEN ReturnExisting(j)
    ELSE TakeLimiters(j)

\* start_download runs download_to_local while the job holds its permits
DownloadStep ==
    /\ jpc[TheJob] = "running"
    /\ \/ DownloadToLocal
       \/ StreamBody

\* the files that can be at the final path before the job: none, or one of
\* any size
OnDisk == {NoFile} \cup {File(Bytes(0, n)) : n \in 0..MaxLocalSize}

InitExists ==
    /\ total_size \in 0..MaxLocalSize
    /\ parallel_connections = 1
    /\ download_url \in {h_clicknupload_net, h_anonfile_de}
    /\ accept_ranges = "bytes"
    /\ response = <<>>
    /\ jsem = <<>>
    /\ replaced = <<>>
    /\ cm_host_limits = <<>>
    /\ health_check = <<>>
    /\ part = [i \in 0..(parallel_connections - 1) |-> NoFile]
    /\ final \in OnDisk
    /\ segments = <<>>
    /\ phase = "idle"
    /\ runs = 0
    /\ segment_status = NoStatus
    /\ wpc = [i \in 0..(parallel_connections - 1) |-> "none"]
    /\ attempt = [i \in 0..(parallel_connections - 1) |-> 0]
    /\ req = [i \in 0..(parallel_connections - 1) |-> <<>>]
    /\ ngets = [i \in 0..(parallel_connections - 1) |-> 0]
    /\ failed_segments = {}
    /\ successful_segments = {}
    /\ asm_i = -1
    /\ final0 = NoFile
    /\ part_gathered = [i \in 0..(parallel_connections - 1) |-> NoFile]
    /\ faults = 0
    /\ callback_progress = NoCall
    /\ jpc = <<"new">>
    /\ jnetloc = <<download_url>>
    /\ jfile = <<"a.bin">>
    /\ use_cm \in BOOLEAN
    /\ AdmitConstructed

NextExists ==
    \/ SubmitDirect(TheJob)
    \/ SubmitCM(TheJob)
    \/ CmAcquire(TheJob)
    \/ ProcessDownloadChecked(TheJob)
    \/ DownloadStep
    \/ FinishJob

SpecExists == InitExists /\ [][NextExists]_vars

\* the file at the final path has the size of the descriptor
SameSizeOnDisk == final.ex /\ Size(final) = total_size

\* no permit of any limiter is taken in the step
NoPermitTaken ==
    /\ global_sempaphore' >= global_sempaphore
    /\ \A h \in DOMAIN semaphores : semaphores'[h] >= semaphores[h]
    /\ \A k \in DOMAIN host_semaphores : host_semaphores'[k] >= host_semaphores[k]

\* C22: check_exists gives True exactly when the file is there with the
\* size of the descriptor, False when it is there with another size, and a
\* falsy value (None) when it is not there; and when it gives True,
\* process_download returns without taking a permit of any limiter and
\* without creating, changing or deleting any file.
C22_CheckExists ==
    /\ [](LET r == check_exists(jfile[TheJob], final, total_size)
          IN  /\ r = "True" <=> SameSizeOnDisk
              /\ r = "False" <=> (final.ex /\ Size(final) # total_size)
              /\ r = "None" <=> ~final.ex)
    /\ [][(jpc[TheJob] = "resolving" /\ SameSizeOnDisk) =>
              /\ jpc'[TheJob] = "skipped"
              /\ NoPermitTaken
              /\ UNCHANGED <<final, part>>]_vars

\* the job has returned because the file was there
C22_Witness ==
    /\ jpc[TheJob] = "skipped"
    /\ SameSizeOnDisk
    /\ total_size > 0

-----------------------------------------------------------------------------
(* The failure of a segmented job, as its caller gets it. *)

\* parallel.py lines 192-196: preserved_bytes, the sum of the expected
\* sizes of the segments in successful_segments (it is logged)
RECURSIVE preserved_bytes(_)
preserved_bytes(S) ==
    IF S = {} THEN 0
    ELSE LET i == CHOOSE x \in S : TRUE
         IN  Expected(i) + preserved_bytes(S \ {i})

\* parallel.py line 216: the exception raised for a job with failed
\* segments; its message is built from len(failed_segments) alone
DownloadFailed == [failed_count |-> Cardinality(failed_segments)]

\* the job has ended at line 216
FailedSegmentsRaised == phase = "failed" /\ failed_segments # {}

\* C23: when a segmented job fails, the failure that its caller gets names
\* exactly the indices of the failed segments and the preserved byte count,
\* the sum of the expected sizes of the successful segments; the failed and
\* the successful segments are disjoint and are all the planned segments.
C23_FailureNamesSegments ==
    FailedSegmentsRaised =>
        /\ failed_segments \cap successful_segments = {}
        /\ failed_segments \cup successful_segments = Ids
        /\ "failed_segments" \in DOMAIN DownloadFailed
        /\ DownloadFailed.failed_segments = failed_segments
        /\ "preserved_bytes" \in DOMAIN DownloadFailed
        /\ DownloadFailed.preserved_bytes = preserved_bytes(successful_segments)

-----------------------------------------------------------------------------
(* One job whose segment reads may stall: the server sends nothing more    *)
(* and does not close the connection.                                      *)

\* a session made with timeout=None
ClientTimeoutNone == FALSE

\* main.py line 385 and network/proxy.py lines 45-52: the session is made
\* by aiohttp.ClientSession() without a timeout argument, and the request
\* of the segment passes none (parallel.py line 386), so the total timeout
\* that aiohttp gives a session by default bounds every request
ClientTimeoutDefault == TRUE

\* the segment tasks of the job
Workers == {0, 1}

\* parallel.py lines 395-402: the response is a 206 and, after n bytes of
\* its body were appended, the read gets nothing more (a stall after some
\* bytes is counted in faults, as a short body is)
ReadStalls(i) ==
    /\ phase = "fetching"
    /\ wpc[i] = "inflight"
    /\ \E n \in 0..MaxShort :
         /\ n < req[i][2] - req[i][1] + 1
         /\ n > 0 => faults < MaxFaults
         /\ faults' = IF n > 0 THEN faults + 1 ELSE faults
         /\ part' = [part EXCEPT ![i] = File(part[i].data \o Bytes(req[i][1], n))]
    /\ wpc' = [wpc EXCEPT ![i] = "stalled"]
    /\ UNCHANGED <<total_size, parallel_connections, segments, final, phase, runs,
                   segment_status, attempt, req, ngets, failed_segments,
                   successful_segments, asm_i, final0, part_gathered>>
    /\ callback_progress' = NoCall
    /\ UNCHANGED avars
    /\ UNCHANGED lvars

\* parallel.py lines 419-432: the session's timeout ends the stalled read
\* with asyncio.TimeoutError, which the handler of the attempt catches
TimeoutEndsRead(i) ==
    /\ ClientTimeoutDefault
    /\ phase = "fetching"
    /\ wpc[i] = "stalled"
    /\ AttemptFailed(i)
    /\ UNCHANGED <<total_size, parallel_connections, segments, part, final, phase,
                   runs, segment_status, req, ngets, failed_segments,
                   successful_segments, asm_i, final0, part_gathered, faults>>
    /\ callback_progress' = NoCall
    /\ UNCHANGED avars
    /\ UNCHANGED lvars

\* the steps of the coroutine of the job, submitted through a
\* ConcurrencyManager (it then holds a permit of each limiter):
\* download_with_limit, download_file, process_download, _download_parallel
\* around its gather, _assemble_segments
JobStep ==
    \/ SubmitCM(TheJob)
    \/ CmAcquire(TheJob)
    \/ ProcessDownload(TheJob)
    \/ /\ jpc[TheJob] = "running"
       /\ \/ phase = "idle" /\ Start
          \/ Decide
          \/ OpenFinal
          \/ CopySegment
          \/ CopyFails
          \/ VerifyFinal
    \/ FinishJob

\* the steps of the task of segment i
WorkerStep(i) ==
    /\ jpc[TheJob] = "running"
    /\ \/ AttemptBegin(i)
       \/ TimeoutEndsRead(i)

\* what the network does to the request of segment i
NetworkStep(i) ==
    /\ jpc[TheJob] = "running"
    /\ \/ RespondError(i)
       \/ RespondPartial(i)
       \/ ReadStalls(i)

InitStall ==
    /\ total_size = SmallSize
    /\ parallel_connections = Cardinality(Workers)
    /\ part = [i \in Workers |-> NoFile]
    /\ final = NoFile
    /\ segments = <<>>
    /\ phase = "idle"
    /\ runs = 0
    /\ segment_status = NoStatus
    /\ wpc = [i \in Workers |-> "none"]
    /\ attempt = [i \in Workers |-> 0]
    /\ req = [i \in Workers |-> <<>>]
    /\ ngets = [i \in Workers |-> 0]
    /\ failed_segments = {}
    /\ successful_segments = {}
    /\ asm_i = -1
    /\ final0 = NoFile
    /\ part_gathered = [i \in Workers |-> NoFile]
    /\ faults = 0
    /\ callback_progress = NoCall
    /\ LocalUnused
    /\ jpc = <<"new">>
    /\ jnetloc = <<h_clicknupload_net>>
    /\ jfile = <<"a.bin">>
    /\ use_cm = TRUE
    /\ AdmitConstructed

NextStall ==
    \/ JobStep
    \/ \E i \in Workers : WorkerStep(i)
    \/ \E i \in Workers : NetworkStep(i)

\* the event loop runs every task that can go on and fires every timer; a
\* request that is not stalled gets its response
FairStall ==
    /\ WF_vars(JobStep)
    /\ \A i \in Workers : WF_vars(WorkerStep(i))
    /\ \A i \in Workers : WF_vars(NetworkStep(i))

SpecStall == InitStall /\ [][NextStall]_vars /\ FairStall

-----------------------------------------------------------------------------
(* The order in which a job takes its permits. *)

\* the jobs that have asked for the permit of the Downloader's semaphore
\* of their host (main.py line 298) and do not have it yet
WaitsHost == {j \in Jobs : jpc[j] = "wait_host"}

\* C25: every job takes the permit of its host's limiter first and the
\* global permit second: no job asks for its host's limiter while it holds
\* a global permit, and every holder of a global permit whose host has a
\* limiter already holds that host's permit.
C25_HostBeforeGlobal ==
    /\ WaitsHost \cap HoldsGlobal = {}
    /\ \A j \in HoldsGlobal :
          host_semapthore(Host(j)) # NoKey => jpc[j] = "running"

-----------------------------------------------------------------------------
(* Claims about the attempts of a segment task. *)

\* the segment tasks that have returned their path
Succeeded == {i \in Ids : phase = "fetching" /\ wpc[i] = "done"}

\* C26: a segment task returns success only when its artifact has exactly
\* the expected size; an artifact larger by any amount is never accepted
\* as complete.
C26_SuccessMeansExactSize ==
    \A i \in Succeeded : part[i].ex /\ Size(part[i]) = Expected(i)

-----------------------------------------------------------------------------
(* One run of a 2-segment job against a server that answers with any       *)
(* status.                                                                 *)

\* the statuses the server answers with
Statuses == {200, 206, 404}

NoResponse == [status |-> 0, len |-> 0]

\* a check that lets every status below 400 through
accepts_status_any_success(status) == status < 400

\* parallel.py lines 389-392: response.raise_for_status() raises for a
\* status of 400 or more, and any status but 206 raises next
accepts_status(status) == status < 400 /\ status = 206

\* a comparison that only catches a body that is too short
size_mismatch_short_only(downloaded, expected_downloaded) ==
    downloaded < expected_downloaded

\* parallel.py lines 411-415: the bytes written in this attempt are
\* compared with end_byte - current_start + 1
size_mismatch(downloaded, expected_downloaded) ==
    downloaded # expected_downloaded

\* parallel.py lines 382-432: the response to the GET of segment i, with
\* its status and a body of n bytes; the artifact is opened for append only
\* after the status was accepted, then the byte count is compared
Respond(i) ==
    /\ phase = "fetching"
    /\ wpc[i] = "inflight"
    /\ LET current_start == req[i][1]
           expected_downloaded == req[i][2] - current_start + 1
       IN  \E status \in Statuses,
              n \in BodyLens(expected_downloaded) \cup {total_size} :
             \* a 206 carries a part, any other status nothing or the whole
             /\ IF status = 206 THEN n \in BodyLens(expected_downloaded)
                ELSE n \in {0, total_size}
             /\ response' = [response EXCEPT ![i] = [status |-> status, len |-> n]]
             /\ IF ~accepts_status(status)
                THEN /\ UNCHANGED <<part, faults>>
                     /\ AttemptFailed(i)
                ELSE /\ part' = [part EXCEPT ![i] =
                                    File(part[i].data \o Bytes(current_start, n))]
                     /\ IF size_mismatch(n, expected_downloaded)
                        THEN /\ faults < MaxFaults
                             /\ faults' = faults + 1
                             /\ AttemptFailed(i)
                        ELSE /\ wpc' = [wpc EXCEPT ![i] = "done"]
                             /\ UNCHANGED <<attempt, faults>>
    /\ UNCHANGED <<total_size, parallel_connections, segments, final, phase, runs,
                   segment_status, req, ngets, failed_segments, successful_segments,
                   asm_i, final0, part_gathered>>
    /\ callback_progress' = NoCall
    /\ UNCHANGED avars
    /\ UNCHANGED <<download_url, accept_ranges, jsem, replaced, cm_host_limits,
                   health_check>>

InitResponse ==
    /\ total_size = SmallSize
    /\ parallel_connections = Cardinality(Workers)
    /\ part = [i \in Workers |-> NoFile]
    /\ final = NoFile
    /\ segments = <<>>
    /\ phase = "idle"
    /\ runs = 0
    /\ segment_status = NoStatus
    /\ wpc = [i \in Workers |-> "none"]
    /\ attempt = [i \in Workers |-> 0]
    /\ req = [i \in Workers |-> <<>>]
    /\ ngets = [i \in Workers |-> 0]
    /\ failed_segments = {}
    /\ successful_segments = {}
    /\ asm_i = -1
    /\ final0 = NoFile
    /\ part_gathered = [i \in Workers |-> NoFile]
    /\ faults = 0
    /\ callback_progress = NoCall
    /\ download_url = <<>>
    /\ accept_ranges = "bytes"
    /\ response = [i \in Workers |-> NoResponse]
    /\ jsem = <<>>
    /\ replaced = <<>>
    /\ cm_host_limits = <<>>
    /\ health_check = <<>>
    /\ AdmitUnused

NextResponse ==
    \/ phase = "idle" /\ Start
    \/ \E i \in Ids : AttemptBegin(i)
    \/ \E i \in Ids : Respond(i)
    \/ Decide

SpecResponse == InitResponse /\ [][NextResponse]_vars

\* C27: an attempt whose response has a status other than 206 - a 200 with
\* the whole body included - fails, and appends no byte to the artifact
\* (which it does not even create).
C27_Non206WritesNothing ==
    [][\A i \in Ids :
          (/\ phase = "fetching"
           /\ wpc[i] = "inflight"
           /\ wpc'[i] # "inflight"
           /\ response'[i].status # 206) =>
              /\ part'[i] = part[i]
              /\ wpc'[i] \in {"ready", "failed"}]_vars

\* a first attempt was answered by a 200 with the whole resource as its
\* body: the task is about to retry and there is no artifact
C27_Witness ==
    /\ phase = "fetching"
    /\ \E i \in Ids :
         /\ response[i] = [status |-> 200, len |-> total_size]
         /\ wpc[i] = "ready"
         /\ attempt[i] = 1
         /\ part[i] = NoFile

\* C28: an attempt answered by a 206 succeeds only if the bytes it wrote
\* are exactly end_byte - current_start + 1; a body of any other length
\* makes the attempt fail, and the bytes it appended stay in the artifact.
C28_ExactCountOrFail ==
    [][\A i \in Ids :
          (/\ phase = "fetching"
           /\ wpc[i] = "inflight"
           /\ wpc'[i] # "inflight"
           /\ response'[i].status = 206) =>
              LET downloaded == response'[i].len
                  expected_downloaded == req[i][2] - req[i][1] + 1
              IN  /\ part'[i] = File(part[i].data \o Bytes(req[i][1], downloaded))
                  /\ wpc'[i] = "done" => downloaded = expected_downloaded
                  /\ downloaded # expected_downloaded =>
                        wpc'[i] \in {"ready", "failed"}]_vars

\* a first attempt got a 206 whose body ended after one byte: the task is
\* about to retry and the byte is in the artifact
C28_Witness ==
    /\ phase = "fetching"
    /\ \E i \in Ids :
         /\ response[i] = [status |-> 206, len |-> 1]
         /\ wpc[i] = "ready"
         /\ attempt[i] = 1
         /\ part[i] = File(Bytes(Seg(i).start, 1))

\* the artifact q holds everything the artifact p held, at the same place
Keeps(p, q) ==
    p.ex => /\ q.ex
            /\ Size(q) >= Size(p)
            /\ SubSeq(q.data, 1, Size(p)) = p.data

\* C29: within one run the task of a segment makes at most retries + 1
\* attempts; after a failed attempt it tries again while attempts remain;
\* when the last attempt fails the task fails the segment and its artifact
\* is neither deleted nor truncated; and a failed segment is not run again
\* in that run, its artifact staying as it is.
C29_BoundedAttempts ==
    [][\A i \in Ids :
          /\ ngets[i] <= retries + 1
          /\ attempt[i] <= retries
          /\ (/\ phase = "fetching"
              /\ wpc[i] = "inflight"
              /\ wpc'[i] # "inflight"
              /\ wpc'[i] # "done") =>
                 /\ Keeps(part[i], part'[i])
                 /\ IF attempt[i] < retries
                    THEN wpc'[i] = "ready" /\ attempt'[i] = attempt[i] + 1
                    ELSE wpc'[i] = "failed"
          /\ wpc[i] = "failed" =>
                 /\ wpc'[i] = "failed"
                 /\ part'[i] = part[i]
                 /\ ngets'[i] = ngets[i]]_vars

\* the job has failed: a segment failed its last attempt after retries + 1
\* requests and the bytes of a short body are still in its artifact
C29_Witness ==
    /\ phase = "failed"
    /\ \E i \in Ids :
         /\ wpc[i] = "failed"
         /\ ngets[i] = retries + 1
         /\ attempt[i] = retries
         /\ part[i].ex
         /\ Size(part[i]) > 0
         /\ Size(part[i]) < Expected(i)

\* the task of segment i has returned or raised
Terminated(i) == wpc[i] \in {"done", "failed"}

\* C30: the coordinator decides the outcome of the job only after every
\* segment task has terminated, and the failure of one task changes
\* nothing for the others: they are not cancelled and go on until they
\* return or fail themselves.
C30_DecideAfterAllTasks ==
    [][/\ (phase = "fetching" /\ phase' \in {"failed", "assembling", "succeeded"}) =>
            \A i \in Ids : Terminated(i)
       /\ \A i \in Ids :
            (phase = "fetching" /\ wpc[i] # "failed" /\ wpc'[i] = "failed") =>
               /\ phase' = "fetching"
               /\ \A k \in Ids \ {i} :
                     /\ wpc'[k] = wpc[k]
                     /\ part'[k] = part[k]
                     /\ attempt'[k] = attempt[k]]_vars

\* the job has failed over one segment while another one went on through
\* failed attempts to its last attempt and completed there
C30_Witness ==
    /\ phase = "failed"
    /\ \E i, k \in Ids :
         /\ wpc[i] = "failed"
         /\ wpc[k] = "done"
         /\ attempt[k] = retries
         /\ ngets[k] = retries + 1
         /\ Size(part[k]) = Expected(k)
    /\ failed_segments \cup successful_segments = Ids

-----------------------------------------------------------------------------
(* _assemble_segments (parallel.py lines 436-489) called, after every      *)
(* segment task has returned, over a directory in which each artifact is   *)
(* missing, short, exact or too long.                                      *)

\* the artifacts that can be there for segment s
Artifacts(s) ==
    {NoFile, File(Bytes(s.start, ExpectedOf(s) - 1)),
     File(Bytes(s.start, ExpectedOf(s))), Grown(s)}

\* parallel.py lines 468-472: the copy loop of segment asm_i ends with
\* fewer bytes in the final file than the segment holds (a write that the
\* file system did not carry out), and the segment is removed
CopyLosesBytes ==
    /\ phase = "assembling"
    /\ asm_i >= 0
    /\ asm_i < Len(segments)
    /\ LET i == NextToCopy(asm_i)
       IN  /\ final' = File(final.data \o SubSeq(part[i].data, 1, Size(part[i]) - 1))
           /\ part' = remove_copied(part, i)
    /\ asm_i' = asm_i + 1
    /\ UNCHANGED <<total_size, parallel_connections, segments, phase, runs,
                   segment_status, wpc, attempt, req, ngets, failed_segments,
                   successful_segments, final0, part_gathered, faults>>
    /\ callback_progress' = NoCall
    /\ UNCHANGED avars
    /\ UNCHANGED lvars

InitAssemble ==
    /\ total_size \in {SmallSize, BigSize}
    /\ parallel_connections = Cardinality(Workers)
    /\ segments = Plan(total_size, parallel_connections)
    /\ part \in [Workers -> UNION {Artifacts(segments[k]) : k \in 1..Len(segments)}]
    /\ \A i \in Workers : part[i] \in Artifacts(segments[i + 1])
    /\ final \in {NoFile, File(<<Garbage>>)}
    /\ phase = "fetching"
    /\ runs = 1
    /\ segment_status = NoStatus
    /\ wpc = [i \in Workers |-> "done"]
    /\ attempt = [i \in Workers |-> 0]
    /\ req = [i \in Workers |-> <<>>]
    /\ ngets = [i \in Workers |-> 0]
    /\ failed_segments = {}
    /\ successful_segments = {}
    /\ asm_i = -1
    /\ final0 = final
    /\ part_gathered = part
    /\ faults = 0
    /\ callback_progress = NoCall
    /\ LocalUnused
    /\ AdmitUnused

NextAssemble ==
    \/ Decide
    \/ OpenFinal
    \/ CopySegment
    \/ CopyLosesBytes
    \/ CopyFails
    \/ VerifyFinal

SpecAssemble == InitAssemble /\ [][NextAssemble]_vars

\* every artifact of p is there with exactly the expected size
AllExact(p) == \A i \in Ids : p[i].ex /\ Size(p[i]) = Expected(i)

\* C31: the final path is opened only after every segment artifact was
\* found there with exactly its expected size; when one is missing or has
\* another size the assembly fails, the final path is neither opened nor
\* written and no segment artifact is deleted.
C31_ValidateBeforeOpen ==
    /\ asm_i >= 0 => AllExact(part_gathered)
    /\ (phase # "fetching" /\ ~AllExact(part_gathered)) =>
          /\ phase = "failed"
          /\ asm_i = -1
          /\ final = final0
          /\ part = part_gathered

\* the assembly has failed over an artifact one byte too long while the
\* other one is exact and an older final file is there: nothing was touched
C31_Witness ==
    /\ phase = "failed"
    /\ \E i \in Ids : part[i].ex /\ Size(part[i]) > Expected(i)
    /\ \E i \in Ids : part[i].ex /\ Size(part[i]) = Expected(i)
    /\ final = File(<<Garbage>>)
    /\ asm_i = -1

\* the bytes of the artifacts 0..n-1 of p, one after the other
RECURSIVE Concat(_, _)
Concat(p, n) == IF n = 0 THEN <<>> ELSE Concat(p, n - 1) \o p[n - 1].data

\* C32: the segments are copied to the final file in the order of their
\* indices, and the artifact of segment i is removed once it is copied and
\* before segment i + 1 is copied: at every point of the assembly the final
\* file holds the segments 0..k-1 in order and exactly the artifacts of
\* the segments k..N-1 are on disk, unchanged.
C32_CopyInOrderThenRemove ==
    (phase = "assembling" /\ asm_i >= 0) =>
        /\ final.data = Concat(part_gathered, asm_i)
        /\ \A i \in Ids : part[i].ex <=> i >= asm_i
        /\ \A i \in Ids : i >= asm_i => part[i] = part_gathered[i]

\* segment 0 is copied and removed, segment 1 is still to be copied
C32_Witness ==
    /\ phase = "assembling"
    /\ asm_i > 0
    /\ asm_i < Len(segments)
    /\ Size(final) = Expected(0)
    /\ ~part[0].ex
    /\ part[asm_i].ex

\* the copy loop has ended and the size checks were made
Verified == asm_i = Len(segments) /\ phase \in {"succeeded", "failed"}

\* C33: the assembly returns normally only if the size of the final file
\* is the sum of the expected sizes of the segments; with any other size it
\* fails, although every segment passed its own size check.
C33_FinalSizeChecked ==
    Verified =>
        (phase = "succeeded" <=> Size(final) = preserved_bytes(Ids))

\* every artifact was exact, a write was lost during the copy, and the
\* assembly has failed at the size check
C33_Witness ==
    /\ Verified
    /\ phase = "failed"
    /\ AllExact(part_gathered)
    /\ Size(final) < preserved_bytes(Ids)

-----------------------------------------------------------------------------
(* The start of a run over a directory in which each artifact is missing,  *)
(* short, exact or too long.                                               *)

InitClassify ==
    /\ total_size \in {SmallSize, BigSize}
    /\ parallel_connections = Cardinality(Workers)
    /\ part \in [Workers -> UNION {Artifacts(Plan(total_size, parallel_connections)[k]) :
                                    k \in 1..parallel_connections}]
    /\ \A i \in Workers :
          part[i] \in Artifacts(Plan(total_size, parallel_connections)[i + 1])
    /\ final \in {NoFile, File(<<Garbage>>)}
    /\ segments = <<>>
    /\ phase = "idle"
    /\ runs = 0
    /\ segment_status = NoStatus
    /\ wpc = [i \in Workers |-> "none"]
    /\ attempt = [i \in Workers |-> 0]
    /\ req = [i \in Workers |-> <<>>]
    /\ ngets = [i \in Workers |-> 0]
    /\ failed_segments = {}
    /\ successful_segments = {}
    /\ asm_i = -1
    /\ final0 = NoFile
    /\ part_gathered = [i \in Workers |-> NoFile]
    /\ faults = 0
    /\ callback_progress = NoCall
    /\ LocalUnused
    /\ AdmitUnused

NextClassify == phase = "idle" /\ Start

SpecClassify == InitClassify /\ [][NextClassify]_vars

\* the classes of a status
Classes == {"complete", "partial", "missing", "corrupted"}

-----------------------------------------------------------------------------
(* ConcurrencyManager alone: download_with_limit around a download_file    *)
(* that is one step, and update_host_limit (concurrency_manager.py lines   *)
(* 53-109 and 181-185).                                                    *)

\* how many times update_host_limit is called
MaxUpdates == 1
\* the largest new_limit given to update_host_limit
MaxNewLimit == 2

\* the network locations of the URLs given to download_with_limit
LimitNetlocs ==
    <<h_clicknupload_net, h_uploadflix_cc,
      <<"U", "p", "l", "o", "a", "d", "F", "l", "i", "x", ".", "c", "c">>>>

\* how many semaphore objects host_semaphores[key] has replaced
Generation(key) == Cardinality({o \in DOMAIN replaced : o[1] = key})

\* the free permits of the semaphore object job j holds a reference to
FreeOf(j) ==
    IF jsem[j].gen = Generation(jsem[j].key)
    THEN host_semaphores[jsem[j].key]
    ELSE replaced[<<jsem[j].key, jsem[j].gen>>]

\* the semaphore object of job j gets d more free permits
SemaphoreAdd(j, d) ==
    IF jsem[j].gen = Generation(jsem[j].key)
    THEN /\ host_semaphores' =
               [host_semaphores EXCEPT ![jsem[j].key] = @ + d]
         /\ UNCHANGED replaced
    ELSE /\ replaced' =
               [replaced EXCEPT ![<<jsem[j].key, jsem[j].gen>>] = @ + d]
         /\ UNCHANGED host_semaphores

\* self.active_downloads[host] += d, on a defaultdict(int)
ActiveAdd(host, d) ==
    [h \in DOMAIN active_downloads \cup {host} |->
        (IF h \in DOMAIN active_downloads THEN active_downloads[h] ELSE 0)
        + (IF h = host THEN d ELSE 0)]

\* concurrency_manager.py lines 90-95: the job looks its semaphore up and
\* keeps the object; with a free permit it enters without being suspended,
\* else it waits on the object
GetSemaphore(j) ==
    /\ jpc[j] = "new"
    /\ LET host == get_host_from_url(jnetloc[j])
           key == get_semaphore(host)
       IN  IF host_semaphores[key] > 0
           THEN /\ jsem' = [jsem EXCEPT ![j] =
                               [key |-> key, gen |-> Generation(key),
                                admitted |-> Generation(key)]]
                /\ host_semaphores' = [host_semaphores EXCEPT ![key] = @ - 1]
                /\ active_downloads' = ActiveAdd(host, 1)
                /\ total_downloads' = total_downloads + 1
                /\ jpc' = [jpc EXCEPT ![j] = "running"]
           ELSE /\ jsem' = [jsem EXCEPT ![j] =
                               [key |-> key, gen |-> Generation(key),
                                admitted |-> -1]]
                /\ jpc' = [jpc EXCEPT ![j] = "cm_wait"]
                /\ UNCHANGED <<host_semaphores, active_downloads,
                               total_downloads>>
    /\ UNCHANGED <<jnetloc, jfile, use_cm, global_sempaphore, semaphores,
                   successful_downloads, failed_downloads, exists>>
    /\ UNCHANGED <<replaced, cm_host_limits>>
    /\ UNCHANGED <<tvars, download_url, accept_ranges, response, health_check>>

\* concurrency_manager.py lines 93-95: a permit of the semaphore object the
\* job waits on is free, and the job enters
EnterLimit(j) ==
    /\ jpc[j] = "cm_wait"
    /\ FreeOf(j) > 0
    /\ SemaphoreAdd(j, -1)
    /\ jsem' = [jsem EXCEPT ![j].admitted = Generation(jsem[j].key)]
    /\ active_downloads' = ActiveAdd(get_host_from_url(jnetloc[j]), 1)
    /\ total_downloads' = total_downloads + 1
    /\ jpc' = [jpc EXCEPT ![j] = "running"]
    /\ UNCHANGED <<jnetloc, jfile, use_cm, global_sempaphore, semaphores,
                   successful_downloads, failed_downloads, exists>>
    /\ UNCHANGED cm_host_limits
    /\ UNCHANGED <<tvars, download_url, accept_ranges, response, health_check>>

\* concurrency_manager.py lines 97-109: download_file returns, raises or is
\* cancelled; the finally block and the release of the semaphore object
LeaveLimit(j) ==
    /\ jpc[j] = "running"
    /\ \E outcome \in {"succeeded", "failed", "cancelled"} :
          /\ jpc' = [jpc EXCEPT ![j] = outcome]
          /\ successful_downloads' =
                successful_downloads + (IF outcome = "succeeded" THEN 1 ELSE 0)
          /\ failed_downloads' =
                failed_downloads + (IF outcome = "failed" THEN 1 ELSE 0)
    /\ active_downloads' = ActiveAdd(get_host_from_url(jnetloc[j]), -1)
    /\ SemaphoreAdd(j, 1)
    /\ UNCHANGED <<jnetloc, jfile, use_cm, global_sempaphore, semaphores,
                   total_downloads, exists>>
    /\ UNCHANGED <<jsem, cm_host_limits>>
    /\ UNCHANGED <<tvars, download_url, accept_ranges, response, health_check>>

\* ConcurrencyManager.update_host_limit (concurrency_manager.py lines
\* 181-185), for a key the dictionary has: the key keeps its place and its
\* semaphore object is replaced by a new one
update_host_limit(host, new_limit) ==
    /\ Cardinality(DOMAIN replaced) < MaxUpdates
    /\ cm_host_limits' = [cm_host_limits EXCEPT ![host] = new_limit]
    /\ replaced' =
          [o \in DOMAIN replaced \cup {<<host, Generation(host)>>} |->
              IF o \in DOMAIN replaced THEN replaced[o] ELSE host_semaphores[host]]
    /\ host_semaphores' = [host_semaphores EXCEPT ![host] = new_limit]
    /\ UNCHANGED <<jpc, jnetloc, jfile, use_cm, global_sempaphore, semaphores,
                   active_downloads, total_downloads, successful_downloads,
                   failed_downloads, exists>>
    /\ UNCHANGED jsem
    /\ UNCHANGED <<tvars, download_url, accept_ranges, response, health_check>>

InitLimit ==
    /\ total_size = SmallSize
    /\ parallel_connections = 1
    /\ part = [i \in {0} |-> NoFile]
    /\ final = NoFile
    /\ segments = <<>>
    /\ phase = "idle"
    /\ runs = 0
    /\ segment_status = NoStatus
    /\ wpc = [i \in {0} |-> "none"]
    /\ attempt = [i \in {0} |-> 0]
    /\ req = [i \in {0} |-> <<>>]
    /\ ngets = [i \in {0} |-> 0]
    /\ failed_segments = {}
    /\ successful_segments = {}
    /\ asm_i = -1
    /\ final0 = NoFile
    /\ part_gathered = [i \in {0} |-> NoFile]
    /\ faults = 0
    /\ callback_progress = NoCall
    /\ download_url = <<>>
    /\ accept_ranges = "bytes"
    /\ response = <<>>
    /\ AdmitConstructed
    /\ use_cm = TRUE
    /\ jpc = [j \in Jobs |-> "new"]
    /\ \E pick \in [Jobs -> 1..Len(LimitNetlocs)] :
          /\ \A j \in Jobs : j > 1 => pick[j - 1] <= pick[j]
          /\ jnetloc = [j \in Jobs |-> LimitNetlocs[pick[j]]]
    /\ jfile = [j \in Jobs |-> "a.bin"]
    /\ jsem = [j \in Jobs |-> [key |-> NoKey, gen |-> 0, admitted |-> -1]]
    /\ replaced = <<>>
    /\ health_check = <<>>
    /\ cm_host_limits =
          [key \in {host_limits[k].key : k \in 1..Len(host_limits)} |->
              LET k == CHOOSE m \in 1..Len(host_limits) : host_limits[m].key = key
              IN  host_limits[k].limit]

NextLimit ==
    \/ \E j \in Jobs : GetSemaphore(j)
    \/ \E j \in Jobs : EnterLimit(j)
    \/ \E j \in Jobs : LeaveLimit(j)
    \/ \E host \in {h_default, h_uploadflix_cc} :
          \E new_limit \in 1..MaxNewLimit : update_host_limit(host, new_limit)

SpecLimit == InitLimit /\ [][NextLimit]_vars

\* the jobs of a key admitted since its semaphore object was last replaced
\* and that are still running
RunningSinceUpdate(key) ==
    {j \in Jobs : /\ jpc[j] = "running"
                  /\ jsem[j].key = key
                  /\ jsem[j].admitted = Generation(key)}

\* C35: once update_host_limit(host, n) has replaced the limiter of a host,
\* the jobs of that host admitted afterwards all hold a permit of the new
\* limiter, so at most n of them run at once, and the new limiter never has
\* more than n free permits
C35_UpdatedLimitHolds ==
    \A key \in DOMAIN host_semaphores :
        Generation(key) > 0 =>
            /\ host_semaphores[key] <= cm_host_limits[key]
            /\ \A j \in RunningSinceUpdate(key) : jsem[j].gen = Generation(key)
            /\ Cardinality(RunningSinceUpdate(key)) <= cm_host_limits[key]

\* the key the limiter of a network location is configured under: the first
\* key, in configuration order, that contains the lowercased host without
\* its leading www. or is contained in it, else the default key
ConfiguredKey(netloc) ==
    LET host == StripWww(Lower(netloc))
        Matches(k) == \/ StrIn(host_limits[k].key, host)
                      \/ StrIn(host, host_limits[k].key)
    IN  IF \E k \in 1..Len(host_limits) : Matches(k)
        THEN host_limits[CHOOSE k \in 1..Len(host_limits) :
                            /\ Matches(k)
                            /\ \A m \in 1..(k - 1) : ~Matches(m)].key
        ELSE h_default

\* C36: the limiter a job is given is the one of the first configured key
\* that contains its host (lowercased, leading www. stripped) or is contained
\* in it, and the default limiter when no key matches
C36_LimiterOfHost ==
    \A j \in Jobs :
        jpc[j] # "new" => jsem[j].key = ConfiguredKey(jnetloc[j])

\* progress_lock.locked(): update_progress (parallel.py lines 90-115) and
\* recalculate_progress (lines 121-134) call the caller's callback inside
\* 'async with progress_lock', so the lock is held for as long as the call
\* of the callback is under way
progress_lock_locked == callback_progress # NoCall

\* C37: while a task is suspended in the caller's progress callback, the
\* coordinator's progress lock is not held
C37_CallbackOutsideLock ==
    callback_progress # NoCall => ~progress_lock_locked

\* sum(self.active_downloads.values()) over the hosts of S
RECURSIVE ActiveSum(_)
ActiveSum(S) ==
    IF S = {} THEN 0
    ELSE LET h == CHOOSE x \in S : TRUE
         IN  active_downloads[h] + ActiveSum(S \ {h})

\* C38: the statistics balance at every moment: total_downloads is
\* successful_downloads plus failed_downloads plus the active downloads of
\* all hosts, and no host has a negative number of active downloads; with no
\* job in flight total_downloads = successful_downloads + failed_downloads
C38_StatsBalance ==
    /\ \A h \in DOMAIN active_downloads : active_downloads[h] >= 0
    /\ total_downloads =
          successful_downloads + failed_downloads
          + ActiveSum(DOMAIN active_downloads)
    /\ (\A j \in Jobs : jpc[j] # "running") =>
          total_downloads = successful_downloads + failed_downloads

\* job j waits for a permit of a limiter none of whose permits is free
Blocked(j) ==
    \/ jpc[j] = "cm_wait" /\ host_semaphores[CmKey(j)] = 0
    \/ jpc[j] = "wait_global" /\ global_sempaphore = 0
    \/ jpc[j] = "wait_host" /\ ~HostPermitFree(j)

\* job j is at a limiter that has a free permit: it enters without waiting
Entering(j) ==
    /\ jpc[j] \in {"cm_wait", "wait_global", "wait_host"}
    /\ ~Blocked(j)

\* C39: whenever a job is blocked waiting for a permit (and no job is about
\* to enter a limiter that has a free permit), at least one job is running,
\* holding every permit it needs
C39_BlockedImpliesRunning ==
    ((\E j \in Jobs : Blocked(j)) /\ (\A j \in Jobs : ~Entering(j)))
        => Running # {}

-----------------------------------------------------------------------------
(* The health check: BaseHealthCheck.check and HealthChecker.check_host    *)
(* (health.py lines 103-187 and 340-386).                                  *)

\* the names check() gives its four steps, in the order it runs them
StepNames ==
    <<"initial_request", "extract_selector", "submit_action", "validate_response">>

\* HealthChecker.__init__ (health.py lines 345-365): the registered hosts
checks ==
    {"gofile", "pixeldrain", "1fichier", "krakenfiles", "uploadflix", "ranoz",
     "filedot", "desiupload", "filemirage", "uploadee", "uploadhive"}

NoResult == [success |-> FALSE, steps_completed |-> <<>>, error |-> FALSE]

\* a check() that goes on to the next step after a step that raised
check_returns_on_false_only(outcome) == outcome = "false"

\* check() returns a failed result when the step returns false (the else
\* branches) and when it raises (except Exception, health.py lines 178-187)
check_returns(outcome) == outcome \in {"false", "raises"}

\* HealthChecker.check_host (health.py lines 367-386) up to the first step:
\* an unknown host gets its result at once; a registered one enters check(),
\* which empties self.steps and steps_completed
check_host(host) ==
    /\ health_check.pc \in {"idle", "returned"}
    /\ IF host \notin checks
       THEN health_check' =
               [pc |-> "returned", host |-> host, steps |-> <<>>,
                steps_completed |-> <<>>, last |-> "none", result |-> NoResult]
       ELSE health_check' =
               [pc |-> "check", host |-> host, steps |-> <<>>,
                steps_completed |-> <<>>, last |-> "none", result |-> NoResult]
    /\ UNCHANGED <<tvars, avars, download_url, accept_ranges, response, jsem,
                   replaced, cm_host_limits>>

\* one step of check() (health.py lines 112-187): _add_step, the awaited
\* step method, which returns true, returns false or raises an Exception,
\* then _complete_step and the next step, or the result
CheckStep ==
    /\ health_check.pc = "check"
    /\ \E outcome \in {"true", "false", "raises"} :
          LET name == StepNames[Len(health_check.steps) + 1]
              step == [name |-> name, completed |-> outcome = "true"]
              steps == Append(health_check.steps, step)
              steps_completed ==
                  IF outcome = "true"
                  THEN Append(health_check.steps_completed, name)
                  ELSE health_check.steps_completed
          IN  IF check_returns(outcome)
              THEN health_check' =
                      [health_check EXCEPT
                          !.pc = "returned", !.steps = steps, !.last = outcome,
                          !.result = [success |-> FALSE,
                                      steps_completed |-> steps_completed,
                                      error |-> outcome = "raises"]]
              ELSE IF Len(steps) = Len(StepNames)
              THEN health_check' =
                      [health_check EXCEPT
                          !.pc = "returned", !.steps = steps, !.last = outcome,
                          !.steps_completed = steps_completed,
                          !.result = [success |-> TRUE,
                                      steps_completed |-> steps_completed,
                                      error |-> FALSE]]
              ELSE health_check' =
                      [health_check EXCEPT
                          !.steps = steps, !.last = outcome,
                          !.steps_completed = steps_completed]
    /\ UNCHANGED <<tvars, avars, download_url, accept_ranges, response, jsem,
                   replaced, cm_host_limits>>

InitHealth ==
    /\ total_size = SmallSize
    /\ parallel_connections = 1
    /\ part = [i \in {0} |-> NoFile]
    /\ final = NoFile
    /\ segments = <<>>
    /\ phase = "idle"
    /\ runs = 0
    /\ segment_status = NoStatus
    /\ wpc = [i \in {0} |-> "none"]
    /\ attempt = [i \in {0} |-> 0]
    /\ req = [i \in {0} |-> <<>>]
    /\ ngets = [i \in {0} |-> 0]
    /\ failed_segments = {}
    /\ successful_segments = {}
    /\ asm_i = -1
    /\ final0 = NoFile
    /\ part_gathered = [i \in {0} |-> NoFile]
    /\ faults = 0
    /\ callback_progress = NoCall
    /\ download_url = <<>>
    /\ accept_ranges = "bytes"
    /\ response = <<>>
    /\ jsem = <<>>
    /\ replaced = <<>>
    /\ cm_host_limits = <<>>
    /\ AdmitUnused
    /\ health_check =
          [pc |-> "idle", host |-> "", steps |-> <<>>, steps_completed |-> <<>>,
           last |-> "none", result |-> NoResult]

NextHealth ==
    \/ \E host \in checks \cup {"unknown_host_xyz"} : check_host(host)
    \/ CheckStep

SpecHealth == InitHealth /\ [][NextHealth]_vars

\* s is the beginning of t
IsPrefix(s, t) == Len(s) <= Len(t) /\ s = SubSeq(t, 1, Len(s))

\* C40: the steps run in the order initial_request, extract_selector,
\* submit_action, validate_response, and none runs after a step that returned
\* false or raised; a step that raises gives a failed result, not an
\* exception; steps_completed is a prefix of the four names; success is true
\* exactly when the four steps completed; an unregistered host gets a failed
\* result with no step run
C40_HealthCheckFlow ==
    /\ IsPrefix([k \in 1..Len(health_check.steps) |-> health_check.steps[k].name],
                StepNames)
    /\ \A k \in 1..(Len(health_check.steps) - 1) : health_check.steps[k].completed
    /\ IsPrefix(health_check.steps_completed, StepNames)
    /\ health_check.last \in {"false", "raises"} =>
          /\ health_check.pc = "returned"
          /\ ~health_check.result.success
          /\ health_check.result.error <=> health_check.last = "raises"
    /\ health_check.pc = "returned" =>
          /\ IsPrefix(health_check.result.steps_completed, StepNames)
          /\ health_check.result.success <=>
                health_check.result.steps_completed = StepNames
          /\ health_check.result.steps_completed =
                [k \in {m \in 1..Len(health_check.steps) :
                           health_check.steps[m].completed} |->
                    health_check.steps[k].name]
          /\ health_check.host \notin checks =>
                ~health_check.result.success /\ health_check.steps = <<>>

\* a check whose third step raised returned a failed result with the first
\* two steps completed
C40_Witness ==
    /\ health_check.pc = "returned"
    /\ health_check.last = "raises"
    /\ Len(health_check.steps) = 3
    /\ health_check.result.steps_completed = <<"initial_request", "extract_selector">>
    /\ ~health_check.result.success

====
